---------------------------- MODULE Spec2Model ----------------------------
(***************************************************************************)
(* A model of the annotation core of thyra: the document                   *)
(* (src/app/thyra_document.py), the two vector-mask variants               *)
(* (src/app/ui/bounding_box.py, src/app/ui/polygone_shape.py) and the      *)
(* overlay widget that drives them from pointer and keyboard events        *)
(* (src/app/ui/overlay_widget.py).                                         *)
(*                                                                         *)
(* Numbers.  Python floats are modelled in fixed point: a normalized       *)
(* coordinate is an integer number of thousandths, so 1.0 is One = 1000,   *)
(* 0.01 is 10 and 0.002 is 2.  A normalized value times an integer pixel   *)
(* count is a pixel value in thousandths of a pixel; the product of two    *)
(* fixed-point values is FMul.  All inputs are chosen so that every        *)
(* result is representable, i.e. the arithmetic is exact.                  *)
(*                                                                         *)
(* Objects.  A mask is a mutable Python object.  The heap obj maps an      *)
(* object handle to the mask's fields; vector_masks, action_stack and      *)
(* selected_mask hold handles, so an in-place edit is seen through every   *)
(* reference.  The handle of a mask is also its id field (uuid4: distinct  *)
(* from every id already in use).  The dataclass __eq__ used by `in` and   *)
(* list.remove compares all fields, id included, so it coincides with      *)
(* identity on handles.                                                    *)
(***************************************************************************)
EXTENDS Integers, Sequences, FiniteSets, TLC

VARIABLES
    vector_masks,         \* ThyraDocument.vector_masks: handles, z-order
    action_stack,         \* ThyraDocument.action_stack: handles
    obj,                  \* heap: handle -> mask fields, or NoMask
    now,                  \* int(datetime.now().timestamp()), in seconds
    last,                 \* the latest call: its name, argument and result
    mode,                 \* OverlayWidget.mode: "box" or "poly"
    dragging,             \* OverlayWidget.dragging
    dragging_vertex,      \* OverlayWidget.dragging_vertex
    active_vertex_index,  \* OverlayWidget.active_vertex_index (0-based)
    current_mask,         \* OverlayWidget.current_mask: the transient mask
    selected_mask,        \* OverlayWidget.selected_mask: a handle
    last_mouse_pos,       \* OverlayWidget.last_mouse_pos
    dash_offset,          \* OverlayWidget.dash_offset
    anchor,               \* where the live draw began (normalized), or NoPos
    image_size,           \* MainWindow.image_width, image_height
    button,               \* the left mouse button: "up" or "down"
    edits,                \* in-place edits of committed masks so far
    req_q,                \* ThyraApp.req_q: the requests not yet taken
    res_q,                \* ThyraApp.res_q: the responses put so far
    sam_worker,           \* the SamWorker process: where it is in run()
    density_worker,       \* the DensityWorker process, likewise
    main_pc,              \* main(): "exec", then the steps of shutdown()
    request_id            \* the id of the latest request sent

document == <<vector_masks, action_stack>>

overlay == <<mode, dragging, dragging_vertex, active_vertex_index,
             current_mask, selected_mask, last_mouse_pos, dash_offset,
             anchor>>

window == <<image_size, button, edits>>

workers == <<req_q, res_q, sam_worker, density_worker, main_pc, request_id>>

vars == <<vector_masks, action_stack, obj, now, last, mode, dragging,
          dragging_vertex, active_vertex_index, current_mask, selected_mask,
          last_mouse_pos, dash_offset, anchor, image_size, button, edits,
          req_q, res_q, sam_worker, density_worker, main_pc, request_id>>

-----------------------------------------------------------------------------
(* Bounds of the model *)

MaxMasks == 2

MaxClock == 1

\* the longest redo buffer and the longest live list the overlay may build
MaxStack == 2

MaxLive == 2

\* the most masks drawn on the overlay
MaxDrawn == 1

\* the most vertices a polygon is drawn with
MaxPoints == 4

\* the most in-place edits (move, move_point, delete_point) of a run
MaxEdits == 1

\* the most method calls made on one mask under SpecShape
MaxCalls == 2

Handles == 1..MaxMasks

-----------------------------------------------------------------------------
(* Fixed point *)

One == 1000

\* 0.01: the smallest side a committed box must exceed
MinBoxSide == 10

\* the fewest points a committed polygon must have
MinPolyPoints == 3

\* a * b for two fixed-point values, in fixed point (split to stay in range)
FMul(a, b) == (a \div One) * b + ((a % One) * b) \div One

-----------------------------------------------------------------------------
(* Sequence helpers *)

Range(s) == {s[i] : i \in 1..Len(s)}

Front(s) == SubSeq(s, 1, Len(s) - 1)

Last(s) == s[Len(s)]

\* s without its element at index i
RemoveAt(s, i) == SubSeq(s, 1, i - 1) \o SubSeq(s, i + 1, Len(s))

\* the least index of s holding x (x is in s)
IndexOf(s, x) == CHOOSE i \in 1..Len(s) : s[i] = x /\ \A j \in 1..(i - 1) : s[j] # x

-----------------------------------------------------------------------------
(* Masks *)

NoMask == [kind |-> "none"]

\* selected_mask is None
NoHandle == 0

\* active_vertex_index is None
NoIndex == -1

\* last_mouse_pos is None
NoPos == <<>>

\* image_width and image_height are None
NoSize == <<>>

BoundingBox(x, y, w, h, id, ts) ==
    [kind |-> "box", x |-> x, y |-> y, w |-> w, h |-> h, id |-> id, ts |-> ts]

PolygonShape(points, id, ts) ==
    [kind |-> "poly", points |-> points, id |-> id, ts |-> ts]

IsBox(m) == m.kind = "box"

IsPoly(m) == m.kind = "poly"

\* handles of the masks that exist
Allocated == {i \in Handles : obj[i] # NoMask}

FreeHandles == Handles \ Allocated

\* uuid4: an id no existing mask has
FreshId == CHOOSE i \in FreeHandles : \A j \in FreeHandles : i <= j


-----------------------------------------------------------------------------
(* ThyraDocument, src/app/thyra_document.py.  Each method is an operator  *)
(* from the document's lists to the lists (and the value) it leaves.      *)

\* list.sort(key=lambda x: x.ts) is stable: x goes after every element whose
\* ts is not larger
InsertByTs(s, x) ==
    LET k == Cardinality({i \in 1..Len(s) : obj[s[i]].ts <= obj[x].ts})
    IN  SubSeq(s, 1, k) \o <<x>> \o SubSeq(s, k + 1, Len(s))

RECURSIVE SortByTs(_)
SortByTs(s) ==
    IF s = <<>> THEN <<>> ELSE InsertByTs(SortByTs(Front(s)), Last(s))

\* a variant that admits a polygon of 2 vertices
ValidMask_AcceptsTwoPoints(m) ==
    CASE m = NoMask -> FALSE
      [] IsBox(m)   -> m.w > MinBoxSide /\ m.h > MinBoxSide
      [] IsPoly(m)  -> Len(m.points) >= MinPolyPoints - 1
      [] OTHER      -> TRUE

\* a variant that admits a side of exactly 0.01
ValidMask_AcceptsEqual(m) ==
    CASE m = NoMask -> FALSE
      [] IsBox(m)   -> m.w >= MinBoxSide /\ m.h >= MinBoxSide
      [] IsPoly(m)  -> Len(m.points) >= MinPolyPoints
      [] OTHER      -> TRUE

\* the validation of append_vector_mask, on the fields of a mask
ValidMask(m) ==
    CASE m = NoMask -> FALSE
      [] IsBox(m)   -> m.w > MinBoxSide /\ m.h > MinBoxSide
      [] IsPoly(m)  -> Len(m.points) >= MinPolyPoints
      [] OTHER      -> TRUE

\* a variant that appends without validating
append_vector_mask_Unchecked(vm, m) ==
    IF m # NoMask
    THEN [vm |-> Append(vm, m.id), ret |-> "True"]
    ELSE [vm |-> vm, ret |-> "False"]

append_vector_mask(vm, m) ==
    IF ValidMask(m)
    THEN [vm |-> Append(vm, m.id), ret |-> "True"]
    ELSE [vm |-> vm, ret |-> "False"]

\* a variant that retires the topmost mask instead of the one given
delete_vector_mask_Topmost(vm, st, h) ==
    IF h \in Range(vm)
    THEN [vm |-> Front(vm), st |-> Append(st, Last(vm))]
    ELSE [vm |-> vm, st |-> st]

delete_vector_mask(vm, st, h) ==
    IF h \in Range(vm)
    THEN [vm |-> RemoveAt(vm, IndexOf(vm, h)), st |-> Append(st, h)]
    ELSE [vm |-> vm, st |-> st]

\* a variant that pops the last inserted mask without sorting by ts
undo_Unsorted(vm, st) ==
    IF vm # <<>>
    THEN [vm |-> Front(vm), st |-> Append(st, Last(vm))]
    ELSE [vm |-> vm, st |-> st]

undo(vm, st) ==
    LET sorted == SortByTs(vm)
    IN  IF sorted # <<>>
        THEN [vm |-> Front(sorted), st |-> Append(st, Last(sorted))]
        ELSE [vm |-> sorted, st |-> st]

\* a variant that restores the mask below the live ones
redo_Bottom(vm, st) ==
    IF st = <<>>
    THEN [vm |-> vm, st |-> st, ret |-> "False"]
    ELSE [vm |-> <<Last(st)>> \o vm, st |-> Front(st), ret |-> "None"]

\* a variant that restores the mask but keeps it in the redo buffer
redo_Keeping(vm, st) ==
    IF st = <<>>
    THEN [vm |-> vm, st |-> st, ret |-> "False"]
    ELSE [vm |-> Append(vm, Last(st)), st |-> st, ret |-> "None"]

redo(vm, st) ==
    IF st = <<>>
    THEN [vm |-> vm, st |-> st, ret |-> "False"]
    ELSE [vm |-> Append(vm, Last(st)), st |-> Front(st), ret |-> "None"]

\* a variant that retires the cleared masks to the redo buffer
clear_Retiring(vm, st) == [vm |-> <<>>, st |-> st \o vm]

clear(vm, st) == [vm |-> <<>>, st |-> st]

-----------------------------------------------------------------------------
(* The earlier ThyraDocument, src/thyra_document.py, which keeps the      *)
(* boxes and the polygons in two lists.                                   *)

legacy_undo(boxes, polygons, st) ==
    LET bs == SortByTs(boxes)
        ps == SortByTs(polygons)
        latest == SortByTs((IF bs # <<>> THEN <<Last(bs)>> ELSE <<>>)
                           \o (IF ps # <<>> THEN <<Last(ps)>> ELSE <<>>))
    IN  IF latest = <<>>
        THEN [boxes |-> bs, polygons |-> ps, st |-> st]
        ELSE IF IsBox(obj[Last(latest)])
        THEN [boxes |-> Front(bs), polygons |-> ps,
              st |-> Append(st, Last(bs))]
        ELSE [boxes |-> bs, polygons |-> Front(ps),
              st |-> Append(st, Last(ps))]

legacy_redo(boxes, polygons, st) ==
    IF st = <<>>
    THEN [boxes |-> boxes, polygons |-> polygons, st |-> st, ret |-> "False"]
    ELSE IF IsBox(obj[Last(st)])
    THEN [boxes |-> Append(boxes, Last(st)), polygons |-> polygons,
          st |-> Front(st), ret |-> "None"]
    ELSE [boxes |-> boxes, polygons |-> Append(polygons, Last(st)),
          st |-> Front(st), ret |-> "None"]

-----------------------------------------------------------------------------
(* Export, src/app/ui/bounding_box.py, src/app/ui/polygone_shape.py and   *)
(* ThyraDocument.export_to_coco.  Pixel values are in thousandths.        *)

\* BoundingBox.to_polygon: the corners as stored, TL, TR, BR, BL, flattened
to_polygon(m) ==
    << m.x, m.y,
       m.x + m.w, m.y,
       m.x + m.w, m.y + m.h,
       m.x, m.y + m.h >>

\* a variant that scales the height by the image width
box_export_to_coco_WidthOnly(m, image_id, ann_id, image_w, image_h) ==
    [ id          |-> ann_id,
      image_id    |-> image_id,
      category_id |-> 1,
      bbox        |-> << m.x * image_w, m.y * image_h,
                         m.w * image_w, m.h * image_w >>,
      area        |-> FMul(m.w * image_w, m.h * image_w),
      iscrowd     |-> 0,
      segmentation |-> << to_polygon(m) >> ]

box_export_to_coco(m, image_id, ann_id, image_w, image_h) ==
    [ id          |-> ann_id,
      image_id    |-> image_id,
      category_id |-> 1,
      bbox        |-> << m.x * image_w, m.y * image_h,
                         m.w * image_w, m.h * image_h >>,
      area        |-> FMul(m.w * image_w, m.h * image_h),
      iscrowd     |-> 0,
      segmentation |-> << to_polygon(m) >> ]

RECURSIVE Flatten(_)
Flatten(pts) ==
    IF pts = <<>> THEN <<>> ELSE Flatten(Front(pts)) \o Last(pts)

SetMin(S) == CHOOSE a \in S : \A b \in S : a <= b

SetMax(S) == CHOOSE a \in S : \A b \in S : a >= b

\* PolygonShape._compute_bbox
compute_bbox(m, image_w, image_h) ==
    LET xs == {m.points[i][1] * image_w : i \in 1..Len(m.points)}
        ys == {m.points[i][2] * image_h : i \in 1..Len(m.points)}
    IN  << SetMin(xs), SetMin(ys),
           SetMax(xs) - SetMin(xs), SetMax(ys) - SetMin(ys) >>

poly_export_to_coco(m, image_id, ann_id, image_w, image_h) ==
    [ id          |-> ann_id,
      image_id    |-> image_id,
      category_id |-> 1,
      segmentation |->
          << Flatten([i \in 1..Len(m.points) |->
                         << m.points[i][1] * image_w,
                            m.points[i][2] * image_h >>]) >>,
      area        |-> 0,
      bbox        |-> compute_bbox(m, image_w, image_h),
      iscrowd     |-> 0 ]

mask_export_to_coco(m, image_id, ann_id, image_w, image_h) ==
    IF IsBox(m)
    THEN box_export_to_coco(m, image_id, ann_id, image_w, image_h)
    ELSE poly_export_to_coco(m, image_id, ann_id, image_w, image_h)

\* a variant that visits the masks in document order
ExportOrder_Document(vm) == vm

\* the masks in the order ThyraDocument.export_to_coco visits them
ExportOrder(vm) == SortByTs(vm)

export_to_coco(vm, image_width, image_height) ==
    LET order == ExportOrder(vm)
    IN  [ images      |-> << [id |-> 1, width |-> image_width,
                              height |-> image_height] >>,
          annotations |-> [k \in 1..Len(order) |->
                              mask_export_to_coco(obj[order[k]], 1, k,
                                                  image_width, image_height)],
          categories  |-> << [id |-> 1, name |-> "object",
                              supercategory |-> "none"] >> ]

-----------------------------------------------------------------------------
(* Coordinate mapping, src/app/computational_geometry/                    *)
(* coordinates_convertion.py.  Sizes and positions are whole pixels; a    *)
(* QRectF holds fixed-point pixels.                                       *)

Abs(a) == IF a < 0 THEN -a ELSE a

Min(a, b) == IF a <= b THEN a ELSE b

Max(a, b) == IF a >= b THEN a ELSE b

\* a / b in fixed point, for two whole numbers or two fixed-point values
FDiv(a, b) == (a * One) \div b

QRectF(x, y, width, height) ==
    [x |-> x, y |-> y, width |-> width, height |-> height]

compute_video_rect(img_w, img_h, widget_w, widget_h) ==
    IF img_w <= 0 \/ img_h <= 0
    THEN QRectF(0, 0, widget_w * One, widget_h * One)
    ELSE LET widget_ratio == FDiv(widget_w, widget_h)
             img_ratio == FDiv(img_w, img_h)
         IN  IF widget_ratio > img_ratio
             THEN LET height == widget_h * One
                      width == FMul(img_ratio, height)
                  IN  QRectF((widget_w * One - width) \div 2, 0,
                             width, height)
             ELSE LET width == widget_w * One
                      height == FDiv(width, img_ratio)
                  IN  QRectF(0, (widget_h * One - height) \div 2,
                             width, height)

\* a variant that does not clamp the relative position to [0,1]
widget_to_image_coords_Unclamped(pos, img_w, img_h, rect) ==
    IF img_w <= 0 \/ img_h <= 0
    THEN <<0, 0>>
    ELSE << FDiv(pos[1] * One - rect.x, rect.width) * img_w,
            FDiv(pos[2] * One - rect.y, rect.height) * img_h >>

\* absolute image coordinates (fixed-point pixels) of the widget position pos
widget_to_image_coords(pos, img_w, img_h, rect) ==
    IF img_w <= 0 \/ img_h <= 0
    THEN <<0, 0>>
    ELSE LET x_rel == FDiv(pos[1] * One - rect.x, rect.width)
             y_rel == FDiv(pos[2] * One - rect.y, rect.height)
         IN  << Min(Max(0, x_rel), One) * img_w,
                Min(Max(0, y_rel), One) * img_h >>

\* a variant that forgets the origin of the display rectangle
image_to_widget_coords_NoOffset(x_img, y_img, img_w, img_h, rect) ==
    IF img_w <= 0 \/ img_h <= 0
    THEN <<0, 0>>
    ELSE << FMul(x_img \div img_w, rect.width),
            FMul(y_img \div img_h, rect.height) >>

\* a variant that returns the origin of the rectangle for a degenerate size
image_to_widget_coords_RectOrigin(x_img, y_img, img_w, img_h, rect) ==
    IF img_w <= 0 \/ img_h <= 0
    THEN <<rect.x, rect.y>>
    ELSE << rect.x + FMul(x_img \div img_w, rect.width),
            rect.y + FMul(y_img \div img_h, rect.height) >>

\* widget coordinates (fixed-point pixels) of the absolute image point
\* (x_img, y_img), itself in fixed-point pixels
image_to_widget_coords(x_img, y_img, img_w, img_h, rect) ==
    IF img_w <= 0 \/ img_h <= 0
    THEN <<0, 0>>
    ELSE << rect.x + FMul(x_img \div img_w, rect.width),
            rect.y + FMul(y_img \div img_h, rect.height) >>

\* x_img / img_w, y_img / img_h: the normalized position the handlers use
Normalized(pos, img_w, img_h, rect) ==
    LET p == widget_to_image_coords(pos, img_w, img_h, rect)
    IN  << p[1] \div img_w, p[2] \div img_h >>

-----------------------------------------------------------------------------
(* BoundingBox, src/app/ui/bounding_box.py *)

box_get_points(m) ==
    << <<m.x, m.y>>, <<m.x + m.w, m.y>>,
       <<m.x + m.w, m.y + m.h>>, <<m.x, m.y + m.h>> >>

box_update(m, x_img_norm, y_img_norm) ==
    [m EXCEPT !.x = Min(m.x, x_img_norm),
              !.y = Min(m.y, y_img_norm),
              !.w = Abs(x_img_norm - m.x),
              !.h = Abs(y_img_norm - m.y)]

\* a variant that clamps the corner (x, y), not the whole box
box_move_CornerOnly(m, dx, dy) ==
    [m EXCEPT !.x = Min(Max(m.x + dx, 0), One),
              !.y = Min(Max(m.y + dy, 0), One)]

\* a variant that stamps the moved box with a later ts
box_move_Restamped(m, dx, dy) ==
    [m EXCEPT !.x = Min(Max(m.x + dx, 0), One - m.w),
              !.y = Min(Max(m.y + dy, 0), One - m.h),
              !.ts = m.ts + 2]

box_move(m, dx, dy) ==
    [m EXCEPT !.x = Min(Max(m.x + dx, 0), One - m.w),
              !.y = Min(Max(m.y + dy, 0), One - m.h)]

box_contains(m, nx, ny) ==
    /\ m.x <= nx /\ nx <= m.x + m.w
    /\ m.y <= ny /\ ny <= m.y + m.h

\* a variant that holds the corner (x, y) fixed whatever the index
box_move_point_FixesOrigin(m, index, nx0, ny0) ==
    LET nx == Max(0, Min(One, nx0))
        ny == Max(0, Min(One, ny0))
    IN  IF index \notin 0..3
        THEN m
        ELSE [m EXCEPT !.x = Min(nx, m.x),
                       !.y = Min(ny, m.y),
                       !.w = Abs(nx - m.x),
                       !.h = Abs(ny - m.y)]

box_move_point(m, index, nx0, ny0) ==
    LET nx == Max(0, Min(One, nx0))
        ny == Max(0, Min(One, ny0))
        fixed == CASE index = 0 -> <<m.x + m.w, m.y + m.h>>
                   [] index = 1 -> <<m.x, m.y + m.h>>
                   [] index = 2 -> <<m.x, m.y>>
                   [] index = 3 -> <<m.x + m.w, m.y>>
                   [] OTHER     -> <<>>
    IN  IF fixed = <<>>
        THEN m
        ELSE [m EXCEPT !.x = Min(nx, fixed[1]),
                       !.y = Min(ny, fixed[2]),
                       !.w = Abs(nx - fixed[1]),
                       !.h = Abs(ny - fixed[2])]

box_delete_point(m, index) == [mask |-> m, ret |-> FALSE]

-----------------------------------------------------------------------------
(* PolygonShape, src/app/ui/polygone_shape.py *)

\* the epsilon of PolygonShape.update, 0.002
PolyEps == 2

poly_get_points(m) == m.points

\* a variant that appends at a difference of exactly 0.002 as well
poly_update_Inclusive(m, x_img_norm, y_img_norm) ==
    LET lastpt == Last(m.points)
    IN  IF Abs(lastpt[1] - x_img_norm) >= PolyEps
           \/ Abs(lastpt[2] - y_img_norm) >= PolyEps
        THEN [m EXCEPT !.points = Append(@, <<x_img_norm, y_img_norm>>)]
        ELSE m

poly_update(m, x_img_norm, y_img_norm) ==
    LET lastpt == Last(m.points)
    IN  IF Abs(lastpt[1] - x_img_norm) > PolyEps
           \/ Abs(lastpt[2] - y_img_norm) > PolyEps
        THEN [m EXCEPT !.points = Append(@, <<x_img_norm, y_img_norm>>)]
        ELSE m

poly_move(m, dx, dy) ==
    [m EXCEPT !.points =
        [i \in 1..Len(m.points) |->
            << Min(Max(m.points[i][1] + dx, 0), One),
               Min(Max(m.points[i][2] + dy, 0), One) >>]]

poly_move_point(m, index, nx, ny) ==
    IF index < 0 \/ index >= Len(m.points)
    THEN m
    ELSE [m EXCEPT !.points[index + 1] =
              << Min(Max(nx, 0), One), Min(Max(ny, 0), One) >>]

\* a variant that pops the last vertex, whatever the index
poly_delete_point_Last(m, index) ==
    IF Len(m.points) <= 3
    THEN [mask |-> m, ret |-> FALSE]
    ELSE IF index < 0 \/ index >= Len(m.points)
    THEN [mask |-> m, ret |-> FALSE]
    ELSE [mask |-> [m EXCEPT !.points = Front(@)], ret |-> TRUE]

\* a variant that refuses only below 3 vertices
poly_delete_point_Below3(m, index) ==
    IF Len(m.points) < 3
    THEN [mask |-> m, ret |-> FALSE]
    ELSE IF index < 0 \/ index >= Len(m.points)
    THEN [mask |-> m, ret |-> FALSE]
    ELSE [mask |-> [m EXCEPT !.points = RemoveAt(@, index + 1)],
          ret |-> TRUE]

poly_delete_point(m, index) ==
    IF Len(m.points) <= 3
    THEN [mask |-> m, ret |-> FALSE]
    ELSE IF index < 0 \/ index >= Len(m.points)
    THEN [mask |-> m, ret |-> FALSE]
    ELSE [mask |-> [m EXCEPT !.points = RemoveAt(@, index + 1)],
          ret |-> TRUE]

\* one step of the ray casting loop: does the edge pts[j] -> pts[i] cross the
\* ray?  The test nx < (xj-xi)*(ny-yi)/(yj-yi+1e-9) + xi is evaluated
\* exactly; the 1e-9 decides only the case of equality, where it moves the
\* quotient towards 0.
EdgeCrosses(pi, pj, nx, ny) ==
    LET a == (pj[1] - pi[1]) * (ny - pi[2])
        d == pj[2] - pi[2]
        l == (nx - pi[1]) * d
    IN  /\ (pi[2] > ny) # (pj[2] > ny)
        /\ IF l = a THEN a < 0
           ELSE IF d > 0 THEN l < a ELSE l > a

poly_contains(m, nx, ny) ==
    LET n == Len(m.points)
        crossings == {i \in 1..n :
                         EdgeCrosses(m.points[i],
                                     m.points[IF i = 1 THEN n ELSE i - 1],
                                     nx, ny)}
    IN  Cardinality(crossings) % 2 = 1

-----------------------------------------------------------------------------
(* VectorMask: the capabilities both variants share *)

\* VectorMask.create(mode, x, y): a box with no extent or a polygon of one
\* point, anchored at (x, y)
VectorMask_create(m, x, y, id, ts) ==
    IF m = "box"
    THEN BoundingBox(x, y, 0, 0, id, ts)
    ELSE PolygonShape(<< <<x, y>> >>, id, ts)

get_points(m) == IF IsBox(m) THEN box_get_points(m) ELSE poly_get_points(m)

update(m, x, y) == IF IsBox(m) THEN box_update(m, x, y) ELSE poly_update(m, x, y)

move(m, dx, dy) == IF IsBox(m) THEN box_move(m, dx, dy) ELSE poly_move(m, dx, dy)

move_point(m, index, nx, ny) ==
    IF IsBox(m) THEN box_move_point(m, index, nx, ny)
    ELSE poly_move_point(m, index, nx, ny)

delete_point(m, index) ==
    IF IsBox(m) THEN box_delete_point(m, index) ELSE poly_delete_point(m, index)

contains(m, nx, ny) ==
    IF IsBox(m) THEN box_contains(m, nx, ny) ELSE poly_contains(m, nx, ny)

-----------------------------------------------------------------------------
(* Inputs *)

\* (x, y, w, h) of the boxes offered to append_vector_mask
BoxInputs ==
    { <<100, 200, 300, 400>>, <<0, 0, 11, 11>>,
      <<0, 0, 10, 500>>, <<0, 0, 500, 10>>, <<500, 500, 0, 0>> }

\* point lists of the polygons offered to append_vector_mask
PolyInputs ==
    { << <<0, 0>> >>,
      << <<0, 0>>, <<500, 0>> >>,
      << <<0, 0>>, <<500, 0>>, <<500, 500>> >> }

\* (width, height) of the image, in pixels
ImageSizes == { <<1000, 500>>, <<200, 100>> }

-----------------------------------------------------------------------------
(* The application object, as ThyraApp.__init__ leaves it *)

\* requests put on the request queue in one run
MaxRequests == 2

RequestTypes == {"segment", "density"}

\* the termination sentinel, None
None == [type |-> "None"]

\* a process that has not been created, one that waits in req_q.get(), one
\* that holds the request it got, one that has left run()
NotStarted == [pc |-> "none", req |-> None]

Waiting == [pc |-> "get", req |-> None]

Exited == [pc |-> "exited", req |-> None]

\* ThyraApp.__init__: two empty queues, no worker yet, the thread of
\* worker_init started; then main() enters app.exec()
InitWorkers ==
    /\ req_q = <<>>
    /\ res_q = <<>>
    /\ sam_worker = NotStarted
    /\ density_worker = NotStarted
    /\ main_pc = "exec"
    /\ request_id = 0

-----------------------------------------------------------------------------
(* The document driven through its own methods *)

Init ==
    /\ vector_masks = <<>>
    /\ action_stack = <<>>
    /\ obj = [i \in Handles |-> NoMask]
    /\ now = 0
    /\ last = [op |-> "init", arg |-> NoMask, ret |-> "None", after |-> "any",
               tog |-> 0]
    /\ mode = "box"
    /\ dragging = FALSE
    /\ dragging_vertex = FALSE
    /\ active_vertex_index = NoIndex
    /\ current_mask = NoMask
    /\ selected_mask = NoHandle
    /\ last_mouse_pos = NoPos
    /\ dash_offset = 0
    /\ anchor = NoPos
    /\ image_size = NoSize
    /\ button = "up"
    /\ edits = 0
    /\ InitWorkers

\* a call's record; after names the call before it only for a redo, the one
\* call whose contract depends on its predecessor; tog flips at every call
Called(op, arg, ret) ==
    [op |-> op, arg |-> arg, ret |-> ret,
     after |-> IF op = "redo" THEN last.op ELSE "any",
     tog |-> 1 - last.tog]

\* the clock of datetime.now() advances
Tick ==
    /\ now < MaxClock
    /\ now' = now + 1
    /\ UNCHANGED <<vector_masks, action_stack, obj, last, overlay, window, workers>>

\* document.append_vector_mask(m) for a mask m just constructed (or None)
DocAppendMask(m) ==
    LET r == append_vector_mask(vector_masks, m)
    IN  /\ vector_masks' = r.vm
        /\ obj' = IF r.ret = "True" THEN [obj EXCEPT ![m.id] = m] ELSE obj
        /\ last' = Called("append", m, r.ret)
        /\ UNCHANGED <<action_stack, now, overlay, window, workers>>

DocAppend ==
    /\ FreeHandles # {}
    /\ \/ \E g \in BoxInputs :
             DocAppendMask(BoundingBox(g[1], g[2], g[3], g[4], FreshId, now))
       \/ \E pts \in PolyInputs :
             DocAppendMask(PolygonShape(pts, FreshId, now))
       \/ DocAppendMask(NoMask)

DocDelete ==
    \E h \in Allocated :
        LET r == delete_vector_mask(vector_masks, action_stack, h)
        IN  /\ vector_masks' = r.vm
            /\ action_stack' = r.st
            /\ last' = Called("delete", h, "None")
            /\ UNCHANGED <<obj, now, overlay, window, workers>>

DocUndo ==
    LET r == undo(vector_masks, action_stack)
    IN  /\ vector_masks' = r.vm
        /\ action_stack' = r.st
        /\ last' = Called("undo", vector_masks, "None")
        /\ UNCHANGED <<obj, now, overlay, window, workers>>

DocRedo ==
    LET r == redo(vector_masks, action_stack)
    IN  /\ vector_masks' = r.vm
        /\ action_stack' = r.st
        /\ last' = Called("redo", NoMask, r.ret)
        /\ UNCHANGED <<obj, now, overlay, window, workers>>

DocClear ==
    LET r == clear(vector_masks, action_stack)
    IN  /\ vector_masks' = r.vm
        /\ action_stack' = r.st
        /\ last' = Called("clear", vector_masks, "None")
        /\ UNCHANGED <<obj, now, overlay, window, workers>>

DocExport ==
    \E size \in ImageSizes :
        /\ last' = Called("export", size,
                          export_to_coco(vector_masks, size[1], size[2]))
        /\ UNCHANGED <<vector_masks, action_stack, obj, now, overlay, window, workers>>

NextDoc ==
    \/ Tick
    \/ DocAppend
    \/ DocDelete
    \/ DocUndo
    \/ DocRedo
    \/ DocClear
    \/ DocExport

SpecDoc == Init /\ [][NextDoc]_vars

-----------------------------------------------------------------------------
(* OverlayWidget, src/app/ui/overlay_widget.py: one action per handler.    *)
(* The left button alternates press (or double click) and release; move    *)
(* events arrive in between and while the button is up.                    *)

\* QWidget.width(), QWidget.height() of the overlay, in pixels
WidgetSize == <<1000, 1000>>

\* sizes of the images opened: 2000 x 1000 is letterboxed into the rows
\* 250..750 of the widget
OpenSizes == { <<2000, 1000>> }

\* event.position() of the pointer events, in widget pixels:
\*   (100,350) -> (0.1, 0.2)      (250,450) -> (0.25, 0.4)
\*   (1200,900) is outside the widget and is clamped to (1.0, 1.0)
PointerPositions ==
    { <<100, 350>>, <<250, 450>>, <<1200, 900>> }

ACTIVE_VERTEX_RADIUS_PX == 8

\* how the last handler of the overlay ended: "None", or the exception it
\* raised.  op names the handler.
Did(op, ret) ==
    [op |-> "overlay", arg |-> NoMask, ret |-> ret, after |-> "any", tog |-> 0]

\* widget coordinates (fixed-point pixels) of the normalized point pt
VertexPx(pt, rect) ==
    << rect.x + FMul(pt[1], rect.width), rect.y + FMul(pt[2], rect.height) >>

\* the square of the distance of two widget points, in fixed point
Dist2(p, q) ==
    FMul(Abs(p[1] - q[1]), Abs(p[1] - q[1]))
        + FMul(Abs(p[2] - q[2]), Abs(p[2] - q[2]))

\* (index, distance) of the vertex nearest to the normalized point (x, y),
\* the first one among equals; the distance is kept squared
find_nearest_vertex(m, x_img_norm, y_img_norm, rect) ==
    LET pts == get_points(m)
        cur == VertexPx(<<x_img_norm, y_img_norm>>, rect)
        d(i) == Dist2(VertexPx(pts[i], rect), cur)
        best == CHOOSE i \in 1..Len(pts) :
                    /\ \A j \in 1..Len(pts) : d(i) <= d(j)
                    /\ \A j \in 1..(i - 1) : d(j) > d(i)
    IN  IF pts = <<>>
        THEN [idx |-> NoIndex, dist2 |-> 0]
        ELSE [idx |-> best - 1, dist2 |-> d(best)]

\* a variant that misses a vertex at exactly the radius
WithinRadius_Strict(near) ==
    /\ near.idx # NoIndex
    /\ near.dist2 < ACTIVE_VERTEX_RADIUS_PX * ACTIVE_VERTEX_RADIUS_PX * One

\* idx is not None and dist <= ACTIVE_VERTEX_RADIUS_PX
WithinRadius(near) ==
    /\ near.idx # NoIndex
    /\ near.dist2 <= ACTIVE_VERTEX_RADIUS_PX * ACTIVE_VERTEX_RADIUS_PX * One

VideoRect ==
    compute_video_rect(image_size[1], image_size[2],
                       WidgetSize[1], WidgetSize[2])

PointerNorm(pos) == Normalized(pos, image_size[1], image_size[2], VideoRect)

\* compute_video_rect(None, ...) raises TypeError before the handler has
\* changed anything
RaisesTypeError(op, pos) ==
    /\ image_size = NoSize
    /\ last' = Did(op, "TypeError")
    /\ UNCHANGED <<document, obj, now, overlay, image_size, workers, edits>>

\* MainWindow.open_image / open_video set image_width and image_height
OpenImage ==
    \E size \in OpenSizes :
        /\ image_size' = size
        /\ last' = Did("open_image", "None")
        /\ UNCHANGED <<document, obj, now, overlay, button, edits, workers>>

\* MainWindow.set_draw_mode -> OverlayWidget.set_mode
SetMode ==
    \E m \in {"box", "poly"} :
        /\ mode' = m
        /\ last' = Did("set_mode", "None")
        /\ UNCHANGED <<document, obj, now, dragging, dragging_vertex,
                       active_vertex_index, current_mask, selected_mask,
                       last_mouse_pos, dash_offset, anchor, window, workers>>

\* mousePressEvent, lines 141-147: start dragging the nearest vertex
PressVertex(pos, idx) ==
    /\ active_vertex_index' = idx
    /\ dragging_vertex' = TRUE
    /\ last_mouse_pos' = pos
    /\ UNCHANGED <<document, obj, now, mode, dragging, current_mask,
                   selected_mask, dash_offset, anchor, image_size, workers, edits>>

\* mousePressEvent, lines 150-154: start dragging the whole mask
PressBody(pos) ==
    /\ dragging' = TRUE
    /\ last_mouse_pos' = pos
    /\ UNCHANGED <<document, obj, now, mode, dragging_vertex,
                   active_vertex_index, current_mask, selected_mask,
                   dash_offset, anchor, image_size, workers, edits>>

\* a variant that pushes the transient mask it replaces to the redo buffer
PressNew_Retiring(n) ==
    /\ Cardinality(Allocated) < MaxDrawn
    /\ selected_mask' = NoHandle
    /\ active_vertex_index' = NoIndex
    /\ dragging' = FALSE
    /\ dragging_vertex' = FALSE
    /\ last_mouse_pos' = NoPos
    /\ current_mask' = VectorMask_create(mode, n[1], n[2], FreshId, now)
    /\ anchor' = <<n[1], n[2]>>
    /\ action_stack' = IF current_mask # NoMask
                       THEN Append(action_stack, current_mask.id)
                       ELSE action_stack
    /\ UNCHANGED <<vector_masks, obj, now, mode, dash_offset, image_size, workers,
                   edits>>

\* mousePressEvent, lines 156-179: deselect and start a new transient mask
PressNew(n) ==
    /\ Cardinality(Allocated) < MaxDrawn
    /\ selected_mask' = NoHandle
    /\ active_vertex_index' = NoIndex
    /\ dragging' = FALSE
    /\ dragging_vertex' = FALSE
    /\ last_mouse_pos' = NoPos
    /\ current_mask' = VectorMask_create(mode, n[1], n[2], FreshId, now)
    /\ anchor' = <<n[1], n[2]>>
    /\ UNCHANGED <<document, obj, now, mode, dash_offset, image_size, workers, edits>>

\* mousePressEvent of the left button at the widget position pos
MousePressAt(pos) ==
    /\ button = "up"
    /\ button' = "down"
    /\ \/ RaisesTypeError("press", pos)
       \/ /\ image_size # NoSize
          /\ last' = Did("press", "None")
          /\ LET n == PointerNorm(pos)
                 near == IF selected_mask # NoHandle
                         THEN find_nearest_vertex(obj[selected_mask],
                                                  n[1], n[2], VideoRect)
                         ELSE [idx |-> NoIndex, dist2 |-> 0]
             IN  IF selected_mask # NoHandle /\ WithinRadius(near)
                 THEN PressVertex(pos, near.idx)
                 ELSE IF selected_mask # NoHandle
                         /\ contains(obj[selected_mask], n[1], n[2])
                 THEN PressBody(pos)
                 ELSE PressNew(n)

MousePress == \E pos \in PointerPositions : MousePressAt(pos)

\* a variant that hit-tests from the bottom of the document
hit_test_Bottommost(vm, nx, ny) ==
    LET hits == {i \in 1..Len(vm) : contains(obj[vm[i]], nx, ny)}
    IN  IF hits # {} THEN vm[SetMin(hits)] ELSE NoHandle

\* mouseDoubleClickEvent, lines 192-194: the first mask of
\* reversed(vector_masks) that contains the point, or none
hit_test(vm, nx, ny) ==
    LET hits == {i \in 1..Len(vm) : contains(obj[vm[i]], nx, ny)}
    IN  IF hits # {} THEN vm[SetMax(hits)] ELSE NoHandle

\* mouseDoubleClickEvent of the left button at the widget position pos
MouseDoubleClickAt(pos) ==
    /\ button = "up"
    /\ button' = "down"
    /\ \/ RaisesTypeError("dblclick", pos)
       \/ /\ image_size # NoSize
          /\ last' = Did("dblclick", "None")
          /\ LET n == PointerNorm(pos)
                 hit == hit_test(vector_masks, n[1], n[2])
             IN  /\ selected_mask' = hit
                 /\ mode' = IF hit # NoHandle THEN mode ELSE "box"
          /\ current_mask' = NoMask
          /\ dragging' = FALSE
          /\ active_vertex_index' = NoIndex
          /\ dragging_vertex' = FALSE
          /\ anchor' = NoPos
          /\ UNCHANGED <<document, obj, now, last_mouse_pos, dash_offset,
                         image_size, workers, edits>>

MouseDoubleClick == \E pos \in PointerPositions : MouseDoubleClickAt(pos)

\* an in-place edit of the selected mask, counted against MaxEdits
EditSelected(m) ==
    /\ edits < MaxEdits
    /\ edits' = edits + 1
    /\ obj' = [obj EXCEPT ![selected_mask] = m]

\* mouseMoveEvent, lines 253-259: dragging a vertex
MoveVertex(pos, n) ==
    /\ EditSelected(move_point(obj[selected_mask], active_vertex_index,
                               n[1], n[2]))
    /\ last_mouse_pos' = pos
    /\ last' = Did("move", "None")
    /\ UNCHANGED <<document, now, mode, dragging, dragging_vertex,
                   active_vertex_index, current_mask, selected_mask,
                   dash_offset, anchor, image_size, workers>>

\* a variant that tracks the pointer without moving the mask
MoveMask_Still(pos) ==
    IF last_mouse_pos = NoPos
    THEN /\ last' = Did("move", "AttributeError")
         /\ UNCHANGED <<document, obj, now, overlay, image_size, workers, edits>>
    ELSE /\ EditSelected(obj[selected_mask])
         /\ last_mouse_pos' = pos
         /\ last' = Did("move", "None")
         /\ UNCHANGED <<document, now, mode, dragging, dragging_vertex,
                        active_vertex_index, current_mask, selected_mask,
                        dash_offset, anchor, image_size, workers>>

\* mouseMoveEvent, lines 261-272: dragging the whole mask; the displacement
\* is divided by the size of the widget
MoveMask(pos) ==
    IF last_mouse_pos = NoPos
    THEN /\ last' = Did("move", "AttributeError")
         /\ UNCHANGED <<document, obj, now, overlay, image_size, workers, edits>>
    ELSE /\ EditSelected(move(obj[selected_mask],
                              FDiv(pos[1] - last_mouse_pos[1], WidgetSize[1]),
                              FDiv(pos[2] - last_mouse_pos[2], WidgetSize[2])))
         /\ last_mouse_pos' = pos
         /\ last' = Did("move", "None")
         /\ UNCHANGED <<document, now, mode, dragging, dragging_vertex,
                        active_vertex_index, current_mask, selected_mask,
                        dash_offset, anchor, image_size, workers>>

\* mouseMoveEvent, lines 274-278: live drawing
MoveDraw(pos, n) ==
    /\ current_mask' = update(current_mask, n[1], n[2])
    /\ IsPoly(current_mask') => Len(current_mask'.points) <= MaxPoints
    /\ last' = Did("move", "None")
    /\ UNCHANGED <<document, obj, now, mode, dragging, dragging_vertex,
                   active_vertex_index, selected_mask, last_mouse_pos,
                   dash_offset, anchor, image_size, workers, edits>>

\* mouseMoveEvent, lines 280-297: hover highlights the nearest vertex
MoveHover(pos, n) ==
    /\ active_vertex_index' =
          IF selected_mask = NoHandle
          THEN active_vertex_index
          ELSE LET near == find_nearest_vertex(obj[selected_mask],
                                               n[1], n[2], VideoRect)
               IN  IF WithinRadius(near) THEN near.idx ELSE NoIndex
    /\ last' = Did("move", "None")
    /\ UNCHANGED <<document, obj, now, mode, dragging, dragging_vertex,
                   current_mask, selected_mask, last_mouse_pos, dash_offset,
                   anchor, image_size, workers, edits>>

\* mouseMoveEvent at the widget position pos
MouseMoveAt(pos) ==
    /\ UNCHANGED button
    /\ \/ RaisesTypeError("move", pos)
       \/ /\ image_size # NoSize
          /\ LET n == PointerNorm(pos)
             IN  IF dragging_vertex /\ selected_mask # NoHandle
                    /\ active_vertex_index # NoIndex
                 THEN MoveVertex(pos, n)
                 ELSE IF dragging /\ selected_mask # NoHandle
                 THEN MoveMask(pos)
                 ELSE IF current_mask # NoMask
                 THEN MoveDraw(pos, n)
                 ELSE MoveHover(pos, n)

MouseMove == \E pos \in PointerPositions : MouseMoveAt(pos)

\* self.main_window.document.action_stack.append(self.selected_mask)
PushSelected ==
    IF selected_mask # NoHandle
    THEN /\ Len(action_stack) < MaxStack
         /\ action_stack' = Append(action_stack, selected_mask)
    ELSE UNCHANGED action_stack

\* mouseReleaseEvent.  The call at lines 323-328 passes the image and screen
\* sizes by keyword as well; the mask is validated and appended as
\* ThyraDocument.append_vector_mask does.
MouseRelease ==
    /\ button = "down"
    /\ button' = "up"
    /\ last' = Did("release", "None")
    /\ IF dragging_vertex
       THEN /\ dragging_vertex' = FALSE
            /\ last_mouse_pos' = NoPos
            /\ PushSelected
            /\ UNCHANGED <<vector_masks, obj, dragging, current_mask,
                           selected_mask>>
       ELSE IF dragging
       THEN /\ dragging' = FALSE
            /\ last_mouse_pos' = NoPos
            /\ PushSelected
            /\ UNCHANGED <<vector_masks, obj, dragging_vertex, current_mask,
                           selected_mask>>
       ELSE IF current_mask # NoMask
       THEN LET r == append_vector_mask(vector_masks, current_mask)
            IN  /\ vector_masks' = r.vm
                /\ obj' = IF r.ret = "True"
                          THEN [obj EXCEPT ![current_mask.id] = current_mask]
                          ELSE obj
                /\ selected_mask' = IF r.ret = "True" THEN Last(r.vm)
                                    ELSE selected_mask
                /\ current_mask' = NoMask
                /\ UNCHANGED <<action_stack, dragging, dragging_vertex,
                               last_mouse_pos>>
       ELSE UNCHANGED <<document, obj, dragging, dragging_vertex,
                        current_mask, selected_mask, last_mouse_pos>>
    /\ anchor' = NoPos
    /\ UNCHANGED <<now, mode, active_vertex_index, dash_offset, image_size, workers,
                   edits>>

\* keyPressEvent, Delete or Backspace
KeyDelete ==
    /\ last' = Did("key_delete", "None")
    /\ IF selected_mask # NoHandle /\ active_vertex_index # NoIndex
       THEN LET r == delete_point(obj[selected_mask], active_vertex_index)
            IN  IF r.ret
                THEN /\ EditSelected(r.mask)
                     /\ active_vertex_index' = NoIndex
                     /\ Len(action_stack) < MaxStack
                     /\ action_stack' = Append(action_stack, selected_mask)
                     /\ UNCHANGED <<vector_masks, selected_mask>>
                ELSE UNCHANGED <<document, obj, active_vertex_index,
                                 selected_mask, edits>>
       ELSE IF selected_mask # NoHandle
       THEN LET r == delete_vector_mask(vector_masks, action_stack,
                                        selected_mask)
            IN  /\ vector_masks' = r.vm
                /\ action_stack' = r.st
                /\ selected_mask' = NoHandle
                /\ active_vertex_index' = NoIndex
                /\ UNCHANGED <<obj, edits>>
       ELSE UNCHANGED <<document, obj, active_vertex_index, selected_mask,
                        edits>>
    /\ UNCHANGED <<now, mode, dragging, dragging_vertex, current_mask,
                   last_mouse_pos, dash_offset, anchor, image_size, workers, button>>

\* a variant that drops the selection with the mask it retires
KeyUndo_Deselecting ==
    LET r == undo(vector_masks, action_stack)
    IN  /\ Len(r.st) <= MaxStack
        /\ vector_masks' = r.vm
        /\ action_stack' = r.st
        /\ last' = Did("key_undo", "None")
        /\ selected_mask' = IF selected_mask \in Range(r.vm)
                            THEN selected_mask ELSE NoHandle
        /\ UNCHANGED <<obj, now, mode, dragging, dragging_vertex,
                       active_vertex_index, current_mask, last_mouse_pos,
                       dash_offset, anchor, window, workers>>

\* keyPressEvent, the undo shortcut, and the toolbar: OverlayWidget.undo
KeyUndo ==
    LET r == undo(vector_masks, action_stack)
    IN  /\ Len(r.st) <= MaxStack
        /\ vector_masks' = r.vm
        /\ action_stack' = r.st
        /\ last' = Did("key_undo", "None")
        /\ UNCHANGED <<obj, now, overlay, window, workers>>

\* keyPressEvent, the redo shortcut, and the toolbar: OverlayWidget.redo
KeyRedo ==
    LET r == redo(vector_masks, action_stack)
    IN  /\ Len(r.vm) <= MaxLive
        /\ vector_masks' = r.vm
        /\ action_stack' = r.st
        /\ last' = Did("key_redo", r.ret)
        /\ UNCHANGED <<obj, now, overlay, window, workers>>

\* OverlayWidget.clear_shapes, with the answer to the confirmation
ClearShapes ==
    \E reply \in {"Ok", "Cancel"} :
        LET r == IF reply = "Ok" THEN clear(vector_masks, action_stack)
                 ELSE [vm |-> vector_masks, st |-> action_stack]
        IN  /\ vector_masks' = r.vm
            /\ action_stack' = r.st
            /\ last' = Did("clear_shapes", "None")
            /\ UNCHANGED <<obj, now, overlay, window, workers>>

\* a variant that wraps one tick late
AnimTick_WrapsLate ==
    /\ dash_offset' = IF dash_offset + 1 > 13 THEN 0 ELSE dash_offset + 1
    /\ UNCHANGED <<document, obj, now, last, mode, dragging, dragging_vertex,
                   active_vertex_index, current_mask, selected_mask,
                   last_mouse_pos, anchor, window, workers>>

\* _on_anim_tick
AnimTick ==
    /\ dash_offset' = IF dash_offset + 1 > 12 THEN 0 ELSE dash_offset + 1
    /\ UNCHANGED <<document, obj, now, last, mode, dragging, dragging_vertex,
                   active_vertex_index, current_mask, selected_mask,
                   last_mouse_pos, anchor, window, workers>>

Next ==
    \/ OpenImage
    \/ SetMode
    \/ MousePress
    \/ MouseMove
    \/ MouseRelease
    \/ MouseDoubleClick
    \/ KeyDelete
    \/ KeyUndo
    \/ KeyRedo
    \/ ClearShapes

Spec == Init /\ [][Next]_vars

-----------------------------------------------------------------------------
(* The overlay over a document that already holds masks (loaded from the   *)
(* file of the image): a box and a polygon that overlap, the polygon       *)
(* later in the document.  One more mask can be drawn.                     *)

\* the masks of the loaded document, in document order; their handles lie
\* above the handles of the masks drawn in the session
\*   box      (0.1, 0.2) .. (0.4, 0.6)
\*   polygon  (0.3, 0.4) (0.6, 0.4) (0.9, 0.9) (0.3, 0.8)
LoadedMasks ==
    << BoundingBox(100, 200, 300, 400, MaxMasks + 1, 0),
       PolygonShape(<< <<300, 400>>, <<600, 400>>, <<900, 900>>,
                       <<300, 800>> >>, MaxMasks + 2, 1) >>

LoadedHandles == { LoadedMasks[i].id : i \in 1..Len(LoadedMasks) }

\* event.position() of the pointer events, in widget pixels; the image is
\* 2000 x 1000, shown in the rows 250..750 of the widget
\*   (350,500) -> (0.35, 0.5)    inside the box and the polygon, far from
\*                               their vertices
\*   (104,353) -> (0.104, 0.206) inside the box only, 5 pixels from its
\*                               vertex 0
\*   (900,700) -> (0.9, 0.9)     on the vertex 2 of the polygon, which
\*                               contains() leaves outside; outside the box
EditPositions ==
    { <<350, 500>>, <<104, 353>>, <<900, 700>> }

InitEdit ==
    /\ vector_masks = [i \in 1..Len(LoadedMasks) |-> LoadedMasks[i].id]
    /\ action_stack = <<>>
    /\ obj = [h \in Handles \cup LoadedHandles |->
                IF h \in Handles THEN NoMask
                ELSE LoadedMasks[h - MaxMasks]]
    /\ now = Len(LoadedMasks)
    /\ last = [op |-> "init", arg |-> NoMask, ret |-> "None",
               after |-> "any", tog |-> 0]
    /\ mode = "box"
    /\ dragging = FALSE
    /\ dragging_vertex = FALSE
    /\ active_vertex_index = NoIndex
    /\ current_mask = NoMask
    /\ selected_mask = NoHandle
    /\ last_mouse_pos = NoPos
    /\ dash_offset = 0
    /\ anchor = NoPos
    /\ image_size \in OpenSizes
    /\ button = "up"
    /\ edits = 0
    /\ InitWorkers

EditPress == \E pos \in EditPositions : MousePressAt(pos)

EditMove == \E pos \in EditPositions : MouseMoveAt(pos)

EditDoubleClick == \E pos \in EditPositions : MouseDoubleClickAt(pos)

\* clear_shapes while the left button is held: QMessageBox.question opens a
\* modal dialog, which takes the mouse, and the button is released over the
\* dialog: the overlay gets no mouseReleaseEvent
ClearShapesHeld ==
    /\ button = "down"
    /\ button' = "up"
    /\ \E reply \in {"Ok", "Cancel"} :
           LET r == IF reply = "Ok" THEN clear(vector_masks, action_stack)
                    ELSE [vm |-> vector_masks, st |-> action_stack]
           IN  /\ vector_masks' = r.vm
               /\ action_stack' = r.st
    /\ last' = Did("clear_shapes", "None")
    /\ UNCHANGED <<obj, now, overlay, image_size, workers, edits>>

\* editing in box mode: selecting, dragging, deleting, undo and redo
NextEdit ==
    \/ EditPress
    \/ EditMove
    \/ MouseRelease
    \/ EditDoubleClick
    \/ KeyDelete
    \/ KeyUndo
    \/ KeyRedo

SpecEdit == InitEdit /\ [][NextEdit]_vars

\* the positions of the presses and double clicks of the picking model:
\*   (108,350) -> (0.108, 0.2)   on the top edge of the box, exactly 8 pixels
\*                               from its vertex 0
PickPositions == EditPositions \cup { <<108, 350>> }

PickPress == \E pos \in PickPositions : MousePressAt(pos)

PickDoubleClick == \E pos \in PickPositions : MouseDoubleClickAt(pos)

\* picking in both modes, without pointer moves: what a press and a double
\* click select, start and drop
NextPick ==
    \/ SetMode
    \/ PickPress
    \/ MouseRelease
    \/ PickDoubleClick
    \/ KeyDelete
    \/ KeyUndo
    \/ KeyRedo
    \/ ClearShapesHeld

SpecPick == InitEdit /\ [][NextPick]_vars

\* drawing boxes over the loaded document, with draws interrupted by the
\* dialog of clear_shapes
NextDraw ==
    \/ EditPress
    \/ EditMove
    \/ MouseRelease
    \/ ClearShapesHeld
    \/ KeyUndo
    \/ KeyRedo

SpecDraw == InitEdit /\ [][NextDraw]_vars

\* the same, with the ticks of the animation timer in between
NextAnim ==
    \/ NextDraw
    \/ AnimTick

SpecAnim == InitEdit /\ [][NextAnim]_vars

-----------------------------------------------------------------------------
(* The methods of one mask, called in any order with any arguments.  The   *)
(* mask under test is current_mask; anchor is the corner a box was created *)
(* at, for as long as the box has only been updated.                       *)

\* the masks under test: boxes inside the image, a box as the press creates
\* it, and polygons of 1, 3, 4 and 5 vertices
ShapeInputs ==
    { BoundingBox(100, 200, 300, 400, 1, 0),
      BoundingBox(600, 500, 400, 500, 1, 0),
      BoundingBox(0, 0, 1000, 1000, 1, 0),
      BoundingBox(500, 500, 0, 0, 1, 0),
      PolygonShape(<< <<500, 500>> >>, 1, 0),
      PolygonShape(<< <<500, 500>>, <<0, 0>> >>, 1, 0),
      PolygonShape(<< <<0, 0>>, <<500, 0>>, <<500, 500>> >>, 1, 0),
      PolygonShape(<< <<100, 100>>, <<900, 100>>, <<900, 900>>,
                      <<100, 900>> >>, 1, 0),
      PolygonShape(<< <<100, 100>>, <<500, 0>>, <<900, 100>>, <<900, 900>>,
                      <<100, 900>> >>, 1, 0) }

\* pointer positions of a live draw: normalized and clamped by the mapping;
\* (0.002, 0.002) and (0.003, 0) lie next to the vertex (0, 0)
UpdatePoints ==
    { <<300, 300>>, <<700, 700>>, <<500, 200>>, <<0, 1000>>, <<2, 2>>,
      <<3, 0>> }

\* displacements of a mask drag
MoveDeltas ==
    { <<0, 0>>, <<200, 100>>, <<-300, -300>>, <<900, 900>>, <<-1500, 0>> }

\* targets of a vertex move, in and out of [0,1]
MovePointTargets ==
    { <<300, 300>>, <<900, 900>>, <<-200, 1300>>, <<50, 700>> }

\* vertex indexes, in and out of range
PointIndexes == -1..5

InitShape ==
    /\ current_mask \in ShapeInputs
    /\ anchor = IF IsBox(current_mask) /\ current_mask.w = 0
                   /\ current_mask.h = 0
                THEN <<current_mask.x, current_mask.y>>
                ELSE NoPos
    /\ vector_masks = <<>>
    /\ action_stack = <<>>
    /\ obj = [i \in Handles |-> NoMask]
    /\ now = 0
    /\ last = [op |-> "init", arg |-> NoMask, ret |-> "None", after |-> "any",
               tog |-> 0]
    /\ mode = "box"
    /\ dragging = FALSE
    /\ dragging_vertex = FALSE
    /\ active_vertex_index = NoIndex
    /\ selected_mask = NoHandle
    /\ last_mouse_pos = NoPos
    /\ dash_offset = 0
    /\ image_size = NoSize
    /\ button = "up"
    /\ edits = 0
    /\ InitWorkers

\* one more call on the mask under test; nothing else changes
ShapeCall ==
    /\ edits < MaxCalls
    /\ edits' = edits + 1
    /\ UNCHANGED <<document, obj, now, mode, dragging, dragging_vertex,
                   active_vertex_index, selected_mask, last_mouse_pos,
                   dash_offset, image_size, workers, button>>

ShapeUpdate ==
    \E p \in UpdatePoints :
        /\ ShapeCall
        /\ current_mask' = update(current_mask, p[1], p[2])
        /\ last' = Called("update", p, "None")
        /\ UNCHANGED anchor

ShapeMove ==
    \E d \in MoveDeltas :
        /\ ShapeCall
        /\ current_mask' = move(current_mask, d[1], d[2])
        /\ last' = Called("move", d, "None")
        /\ anchor' = NoPos

ShapeMovePoint ==
    \E index \in PointIndexes, t \in MovePointTargets :
        /\ ShapeCall
        /\ current_mask' = move_point(current_mask, index, t[1], t[2])
        /\ last' = Called("move_point", <<index, t[1], t[2]>>, "None")
        /\ anchor' = NoPos

ShapeDeletePoint ==
    \E index \in PointIndexes :
        LET r == delete_point(current_mask, index)
        IN  /\ ShapeCall
            /\ current_mask' = r.mask
            /\ last' = Called("delete_point", index,
                              IF r.ret THEN "True" ELSE "False")
            /\ anchor' = NoPos

NextShape ==
    \/ ShapeUpdate
    \/ ShapeMove
    \/ ShapeMovePoint
    \/ ShapeDeletePoint

SpecShape == InitShape /\ [][NextShape]_vars

-----------------------------------------------------------------------------
(* The two coordinate mappings, applied one after the other.  A first call *)
(* maps a point of the image, or a point of the display rectangle; a       *)
(* second call maps the result back with the other function.               *)

MapImageSizes == { <<2000, 1000>>, <<1000, 1000>>, <<500, 1000>>, <<200, 100>> }

MapWidgetSizes == { <<1000, 1000>>, <<1000, 500>> }

\* where the points of a round trip lie, as fractions of the image or of the
\* display rectangle; with the sizes above they are whole widget pixels
MapFractions ==
    { <<0, 0>>, <<100, 500>>, <<500, 300>>, <<200, 800>>, <<1000, 1000>> }

\* QPointF(x, y) of a fixed-point position that is a whole pixel, as
\* widget_to_image_coords takes it
QPointF(q) == << q[1] \div One, q[2] \div One >>

InitMap ==
    /\ image_size \in MapImageSizes
    /\ vector_masks = <<>>
    /\ action_stack = <<>>
    /\ obj = [i \in Handles |-> NoMask]
    /\ now = 0
    /\ last = [op |-> "init", arg |-> NoMask, ret |-> "None", after |-> "any",
               tog |-> 0]
    /\ mode = "box"
    /\ dragging = FALSE
    /\ dragging_vertex = FALSE
    /\ active_vertex_index = NoIndex
    /\ current_mask = NoMask
    /\ selected_mask = NoHandle
    /\ last_mouse_pos = NoPos
    /\ dash_offset = 0
    /\ anchor = NoPos
    /\ button = "up"
    /\ edits = 0
    /\ InitWorkers

MapFrame ==
    UNCHANGED <<document, obj, now, overlay, window, workers>>

\* one call of a mapping: what it was given and what it returned; origin is
\* the point the round trip started from
Mapped(op, widget, p, origin, leg) ==
    LET rect == compute_video_rect(image_size[1], image_size[2],
                                   widget[1], widget[2])
    IN  [ op  |-> op,
          arg |-> [widget |-> widget, p |-> p, origin |-> origin],
          ret |-> IF op = "image_to_widget"
                  THEN image_to_widget_coords(p[1], p[2], image_size[1],
                                              image_size[2], rect)
                  ELSE widget_to_image_coords(QPointF(p), image_size[1],
                                              image_size[2], rect),
          after |-> leg,
          tog |-> 1 - last.tog ]

\* image_to_widget_coords of a point inside the image
MapToWidget ==
    \E widget \in MapWidgetSizes, f \in MapFractions :
        LET p == << f[1] * image_size[1], f[2] * image_size[2] >>
        IN  /\ last.after # "out"
            /\ last' = Mapped("image_to_widget", widget, p, p, "out")
            /\ MapFrame

\* widget_to_image_coords of a point inside the display rectangle
MapToImage ==
    \E widget \in MapWidgetSizes, f \in MapFractions :
        LET rect == compute_video_rect(image_size[1], image_size[2],
                                       widget[1], widget[2])
            p == << rect.x + FMul(f[1], rect.width),
                    rect.y + FMul(f[2], rect.height) >>
        IN  /\ last.after # "out"
            /\ last' = Mapped("widget_to_image", widget, p, p, "out")
            /\ MapFrame

\* the other mapping, applied to what the first returned
MapBack ==
    /\ last.after = "out"
    /\ last' = Mapped(IF last.op = "image_to_widget" THEN "widget_to_image"
                      ELSE "image_to_widget",
                      last.arg.widget, last.ret, last.arg.origin, "back")
    /\ MapFrame

NextMap ==
    \/ MapToWidget
    \/ MapToImage
    \/ MapBack

SpecMap == InitMap /\ [][NextMap]_vars

-----------------------------------------------------------------------------
(* The mappings called with a degenerate image size.  The rectangle passed *)
(* is the one computed for the image shown before (image_size), or the one *)
(* the mapping computes itself when it is given none.                      *)

DegenerateSizes == { <<0, 0>>, <<0, 1000>>, <<2000, 0>>, <<-1, -1>> }

\* the rect argument: explicit, or None
PassedRects(size, widget) ==
    { compute_video_rect(image_size[1], image_size[2], widget[1], widget[2]),
      compute_video_rect(size[1], size[2], widget[1], widget[2]) }

DegenerateCall(op, size, widget, rect, p, ret) ==
    /\ last' = [ op  |-> op,
                 arg |-> [size |-> size, widget |-> widget, rect |-> rect,
                          p |-> p],
                 ret |-> ret,
                 after |-> "any",
                 tog |-> 1 - last.tog ]
    /\ MapFrame

DegenerateRect ==
    \E size \in DegenerateSizes, widget \in MapWidgetSizes :
        /\ last' = [ op  |-> "compute_video_rect",
                     arg |-> [size |-> size, widget |-> widget,
                              rect |-> NoMask, p |-> NoPos],
                     ret |-> compute_video_rect(size[1], size[2],
                                                widget[1], widget[2]),
                     after |-> "any",
                     tog |-> 1 - last.tog ]
        /\ MapFrame

DegenerateToImage ==
    \E size \in DegenerateSizes, widget \in MapWidgetSizes,
       f \in MapFractions :
        \E rect \in PassedRects(size, widget) :
            LET pos == << FMul(f[1], widget[1]), FMul(f[2], widget[2]) >>
            IN  DegenerateCall("widget_to_image", size, widget, rect, pos,
                               widget_to_image_coords(pos, size[1], size[2],
                                                      rect))

DegenerateToWidget ==
    \E size \in DegenerateSizes, widget \in MapWidgetSizes,
       f \in MapFractions :
        \E rect \in PassedRects(size, widget) :
            LET p == << f[1] * image_size[1], f[2] * image_size[2] >>
            IN  DegenerateCall("image_to_widget", size, widget, rect, p,
                               image_to_widget_coords(p[1], p[2], size[1],
                                                      size[2], rect))

NextDegenerate ==
    \/ DegenerateRect
    \/ DegenerateToImage
    \/ DegenerateToWidget

SpecDegenerate == InitMap /\ [][NextDegenerate]_vars

-----------------------------------------------------------------------------
(* PolygonShape.smooth, src/app/ui/polygone_shape.py lines 50-116.  The    *)
(* spline (scipy) and the removal of self-intersections (shapely) are      *)
(* libraries: what they return is an input of the model, fit, which is     *)
(* either the exception of splprep or the coordinates, in millimetres, of  *)
(* the curve that line 97, 100 or 103 leaves in coords.  Lengths in        *)
(* millimetres and in pixels are in thousandths, like the normalized       *)
(* coordinates.                                                            *)

\* min_point_distance_mm = 3.0
MinPointDistanceMm == 3000

\* screen_width_mm and screen_height_mm are None, the default
NoScreen == <<>>

FitError == [raised |-> TRUE, coords |-> <<>>]

Fitted(coords) == [raised |-> FALSE, coords |-> coords]

\* np.linalg.norm(pt - prev_pt) >= d, without squaring a large difference
AtLeastApart(pt, prev_pt, d) ==
    LET dx == Abs(pt[1] - prev_pt[1])
        dy == Abs(pt[2] - prev_pt[2])
    IN  dx >= d \/ dy >= d \/ dx * dx + dy * dy >= d * d

\* lines 106-111: new_pts_mm.  prev_pt[i] is the index in coords of the last
\* point kept when the loop has seen coords[i]
FilterClose(coords, d) ==
    LET n == Len(coords)
        prev_pt[i \in 1..n] ==
            IF i = 1
            THEN 1
            ELSE LET p == prev_pt[i - 1]
                 IN  IF p > 0 /\ AtLeastApart(coords[i], coords[p], d)
                     THEN i
                     ELSE p
        kept == SelectSeq([i \in 1..n |-> i], LAMBDA i : prev_pt[i] = i)
    IN  [k \in 1..Len(kept) |-> coords[kept[k]]]

\* lines 64-71: the points in screen millimetres
PointsMm(points, image_width, image_height, scale_x, scale_y) ==
    [i \in 1..Len(points) |->
        << FMul(points[i][1] * image_width, scale_x),
           FMul(points[i][2] * image_height, scale_y) >>]

\* a variant that leaves the pixel coordinates in the polygon when the fit
\* fails
poly_smooth_KeepsPixels(m, image_width, image_height, screen, d, fit) ==
    IF Len(m.points) < 3
    THEN [mask |-> m, ret |-> "None"]
    ELSE IF screen = NoScreen
    THEN [mask |-> m, ret |-> "TypeError"]
    ELSE LET scale_x == FDiv(screen[1], image_width)
             scale_y == FDiv(screen[2], image_height)
         IN  IF fit.raised
             THEN [mask |-> [m EXCEPT !.points =
                       [i \in 1..Len(m.points) |->
                           << (m.points[i][1] * image_width) \div One,
                              (m.points[i][2] * image_height) \div One >>]],
                   ret |-> "None"]
             ELSE LET new_pts_mm == FilterClose(fit.coords, d)
                  IN  [mask |-> [m EXCEPT !.points =
                          [i \in 1..Len(new_pts_mm) |->
                              << FDiv(new_pts_mm[i][1], scale_x)
                                     \div image_width,
                                 FDiv(new_pts_mm[i][2], scale_y)
                                     \div image_height >>]],
                       ret |-> "None"]

\* PolygonShape.smooth: the polygon afterwards, and how the call ended
poly_smooth(m, image_width, image_height, screen, d, fit) ==
    IF Len(m.points) < 3
    THEN [mask |-> m, ret |-> "None"]
    ELSE IF screen = NoScreen
    THEN [mask |-> m, ret |-> "TypeError"]
    ELSE LET scale_x == FDiv(screen[1], image_width)
             scale_y == FDiv(screen[2], image_height)
         IN  IF fit.raised
             THEN [mask |-> [m EXCEPT !.points =
                       [i \in 1..Len(m.points) |->
                           << (m.points[i][1] * image_width) \div image_width,
                              (m.points[i][2] * image_height)
                                  \div image_height >>]],
                   ret |-> "None"]
             ELSE LET new_pts_mm == FilterClose(fit.coords, d)
                  IN  [mask |-> [m EXCEPT !.points =
                          [i \in 1..Len(new_pts_mm) |->
                              << FDiv(new_pts_mm[i][1], scale_x)
                                     \div image_width,
                                 FDiv(new_pts_mm[i][2], scale_y)
                                     \div image_height >>]],
                       ret |-> "None"]

\* BoundingBox.smooth: pass
box_smooth(m) == [mask |-> m, ret |-> "None"]

\* the masks smoothed: a box; polygons of two points, of three points 100 mm
\* and more apart, of three equal points, of three points less than 3 mm
\* apart, of three points 4 to 9 mm apart, of three points on a line, and
\* the loaded quadrilateral
SmoothInputs ==
    { BoundingBox(100, 200, 300, 400, 1, 0),
      PolygonShape(<< <<500, 500>>, <<0, 0>> >>, 1, 0),
      PolygonShape(<< <<0, 0>>, <<500, 0>>, <<500, 500>> >>, 1, 0),
      PolygonShape(<< <<100, 100>>, <<100, 100>>, <<100, 100>> >>, 1, 0),
      PolygonShape(<< <<500, 500>>, <<502, 500>>, <<500, 504>> >>, 1, 0),
      PolygonShape(<< <<500, 500>>, <<510, 500>>, <<500, 520>> >>, 1, 0),
      PolygonShape(<< <<100, 100>>, <<200, 200>>, <<300, 300>> >>, 1, 0),
      PolygonShape(<< <<300, 400>>, <<600, 400>>, <<900, 900>>,
                      <<300, 800>> >>, 1, 0) }

\* the screen, in millimetres: 0.2 mm and 0.5 mm per pixel of the
\* 2000 x 1000 image; or none given
ScreensMm == { <<400, 200>>, <<1000, 500>>, NoScreen }

\* the closed curve through the vertices pts
ClosedPath(pts) == Append(pts, pts[1])

\* the closed curve through the vertices and the middle of every side
WithMidpoints(pts) ==
    LET n == Len(pts)
        nxt(i) == pts[(i % n) + 1]
    IN  [k \in 1..(2 * n + 1) |->
            IF k = 2 * n + 1 THEN pts[1]
            ELSE IF k % 2 = 1 THEN pts[(k + 1) \div 2]
            ELSE << (pts[k \div 2][1] + nxt(k \div 2)[1]) \div 2,
                    (pts[k \div 2][2] + nxt(k \div 2)[2]) \div 2 >>]

\* what the libraries can leave in coords for the vertices pts_mm: closed
\* curves through the vertices, as an interpolating periodic spline is
FitCurves(pts_mm) ==
    { ClosedPath(pts_mm), WithMidpoints(pts_mm) }

InitSmooth ==
    /\ current_mask \in SmoothInputs
    /\ image_size \in OpenSizes
    /\ anchor = NoPos
    /\ vector_masks = <<>>
    /\ action_stack = <<>>
    /\ obj = [i \in Handles |-> NoMask]
    /\ now = 0
    /\ last = [op |-> "init", arg |-> NoMask, ret |-> "None", after |-> "any",
               tog |-> 0]
    /\ mode = "box"
    /\ dragging = FALSE
    /\ dragging_vertex = FALSE
    /\ active_vertex_index = NoIndex
    /\ selected_mask = NoHandle
    /\ last_mouse_pos = NoPos
    /\ dash_offset = 0
    /\ button = "up"
    /\ edits = 0
    /\ InitWorkers

\* the frame of a call of smooth
SmoothFrame ==
    UNCHANGED <<document, obj, now, mode, dragging, dragging_vertex,
                active_vertex_index, selected_mask, last_mouse_pos,
                dash_offset, anchor, image_size, button, workers>>

\* the record of a call: the mask before, the arguments, how the call ended
SmoothDid(screen, fit, ret) ==
    [op |-> "smooth",
     arg |-> [mask |-> current_mask, screen |-> screen, fit |-> fit],
     ret |-> ret, after |-> "any", tog |-> 1 - last.tog]

\* smooth of either variant
smooth(m, image_width, image_height, screen, d, fit) ==
    IF IsBox(m)
    THEN box_smooth(m)
    ELSE poly_smooth(m, image_width, image_height, screen, d, fit)

\* splprep takes the closed path: at least 4 points, no two successive
\* points equal
CanFit(closed) ==
    /\ Len(closed) >= 4
    /\ \A i \in 1..(Len(closed) - 1) : closed[i] # closed[i + 1]

\* a call of smooth in which the curve cannot be fitted: splprep raises
SmoothFailed ==
    \E screen \in ScreensMm :
        LET r == smooth(current_mask, image_size[1], image_size[2], screen,
                        MinPointDistanceMm, FitError)
        IN  /\ edits < MaxCalls
            /\ edits' = edits + 1
            /\ current_mask' = r.mask
            /\ last' = SmoothDid(screen, FitError, r.ret)
            /\ SmoothFrame

\* a call of smooth in which the curve is fitted and resampled
SmoothFitted ==
    \E screen \in ScreensMm \ {NoScreen} :
        LET pts_mm == PointsMm(get_points(current_mask),
                               image_size[1], image_size[2],
                               FDiv(screen[1], image_size[1]),
                               FDiv(screen[2], image_size[2]))
        IN  /\ IsPoly(current_mask)
            /\ Len(current_mask.points) >= 3
            /\ CanFit(ClosedPath(pts_mm))
            /\ edits < MaxCalls
            /\ \E coords \in FitCurves(pts_mm) :
                  LET r == smooth(current_mask, image_size[1], image_size[2],
                                  screen, MinPointDistanceMm, Fitted(coords))
                  IN  /\ edits' = edits + 1
                      /\ current_mask' = r.mask
                      /\ last' = SmoothDid(screen, Fitted(coords), r.ret)
                      /\ SmoothFrame

NextSmooth ==
    \/ SmoothFailed
    \/ SmoothFitted

SpecSmooth == InitSmooth /\ [][NextSmooth]_vars

-----------------------------------------------------------------------------
(* ThyraApp and its two worker processes, src/app/app.py and              *)
(* src/app/workers.  Both workers read the one request queue; a get takes  *)
(* the head of the queue whoever calls it.                                 *)

\* the overlay and the document, which the workers never touch
WorkersFrame ==
    UNCHANGED <<document, obj, now, last, overlay, image_size, button, edits>>

\* worker_init, lines 37 and 39
StartSam ==
    /\ main_pc # "exit"
    /\ sam_worker = NotStarted
    /\ sam_worker' = Waiting
    /\ UNCHANGED <<req_q, res_q, density_worker, main_pc, request_id>>
    /\ WorkersFrame

\* worker_init, lines 38 and 40
StartDensity ==
    /\ main_pc # "exit"
    /\ sam_worker # NotStarted
    /\ density_worker = NotStarted
    /\ density_worker' = Waiting
    /\ UNCHANGED <<req_q, res_q, sam_worker, main_pc, request_id>>
    /\ WorkersFrame

\* the core sends a request {type, request_id} while the application runs
PutRequest ==
    /\ main_pc = "exec"
    /\ request_id < MaxRequests
    /\ \E type \in RequestTypes :
          req_q' = Append(req_q, [type |-> type,
                                  request_id |-> request_id + 1])
    /\ request_id' = request_id + 1
    /\ UNCHANGED <<res_q, sam_worker, density_worker, main_pc>>
    /\ WorkersFrame

\* req = self.req_q.get(): blocks on an empty queue
run_get(w, q) == [w |-> [pc |-> "handle", req |-> Head(q)], q |-> Tail(q)]

\* the rest of one turn of the loop of run() in a worker that answers the
\* requests of type type with the fields fields: what becomes of the worker
\* and of the response queue
run_handle(w, type, fields, q) ==
    IF w.req = None
    THEN [w |-> Exited, q |-> q]
    ELSE IF w.req.type = type
    THEN [w |-> Waiting,
          q |-> Append(q, [request_id |-> w.req.request_id,
                           fields |-> fields])]
    ELSE [w |-> Waiting, q |-> q]

SamGet ==
    /\ sam_worker.pc = "get"
    /\ req_q # <<>>
    /\ sam_worker' = run_get(sam_worker, req_q).w
    /\ req_q' = run_get(sam_worker, req_q).q
    /\ UNCHANGED <<res_q, density_worker, main_pc, request_id>>
    /\ WorkersFrame

\* SamWorker.run, lines 17-40
SamHandle ==
    /\ sam_worker.pc = "handle"
    /\ LET r == run_handle(sam_worker, "segment", {"mask"}, res_q)
       IN  /\ sam_worker' = r.w
           /\ res_q' = r.q
    /\ UNCHANGED <<req_q, density_worker, main_pc, request_id>>
    /\ WorkersFrame

DensityGet ==
    /\ density_worker.pc = "get"
    /\ req_q # <<>>
    /\ density_worker' = run_get(density_worker, req_q).w
    /\ req_q' = run_get(density_worker, req_q).q
    /\ UNCHANGED <<res_q, sam_worker, main_pc, request_id>>
    /\ WorkersFrame

\* DensityWorker.run, lines 15-27
DensityHandle ==
    /\ density_worker.pc = "handle"
    /\ LET r == run_handle(density_worker, "density", {"count", "density"},
                           res_q)
       IN  /\ density_worker' = r.w
           /\ res_q' = r.q
    /\ UNCHANGED <<req_q, sam_worker, main_pc, request_id>>
    /\ WorkersFrame

\* a variant of shutdown that sends one sentinel
ShutdownPut_Once ==
    /\ main_pc \in {"exec", "put"}
    /\ req_q' = Append(req_q, None)
    /\ main_pc' = "join"
    /\ UNCHANGED <<res_q, sam_worker, density_worker, request_id>>
    /\ WorkersFrame

\* ThyraApp.shutdown, lines 53 and 54: self.req_q.put(None), twice
ShutdownPut ==
    /\ main_pc \in {"exec", "put"}
    /\ req_q' = Append(req_q, None)
    /\ main_pc' = IF main_pc = "exec" THEN "put" ELSE "join"
    /\ UNCHANGED <<res_q, sam_worker, density_worker, request_id>>
    /\ WorkersFrame

\* ThyraApp.shutdown, lines 57-60: join(timeout=2) returns after two seconds
\* whether or not the worker has ended
ShutdownJoin ==
    /\ main_pc = "join"
    /\ main_pc' = "exit"
    /\ UNCHANGED <<req_q, res_q, sam_worker, density_worker, request_id>>
    /\ WorkersFrame

SamStep == SamGet \/ SamHandle

DensityStep == DensityGet \/ DensityHandle

NextWorkers ==
    \/ StartSam
    \/ StartDensity
    \/ PutRequest
    \/ SamGet
    \/ SamHandle
    \/ DensityGet
    \/ DensityHandle
    \/ ShutdownPut
    \/ ShutdownJoin

SpecWorkers == Init /\ [][NextWorkers]_vars

\* the same, with each started process running on: a worker that can take a
\* step takes one
SpecWorkersLive ==
    /\ Init
    /\ [][NextWorkers]_vars
    /\ WF_vars(SamStep)
    /\ WF_vars(DensityStep)

-----------------------------------------------------------------------------
(* Properties of the document's methods, checked under SpecDoc *)

\* this step is a call of the method op
IsCall(op) == last'.tog # last.tog /\ last'.op = op

\* the pixel count n in fixed point
Px(n) == n * One

\* s with every occurrence of x left out, the order of the rest kept
Without(s, x) == LET Keep(e) == e # x IN SelectSeq(s, Keep)

BoxesOf(vm) == LET B(e) == IsBox(obj[e]) IN SelectSeq(vm, B)

PolygonsOf(vm) == LET P(e) == IsPoly(obj[e]) IN SelectSeq(vm, P)

MaxTs(S) == \A a \in S : \E b \in S : obj[a].ts <= obj[b].ts

IsLatestIn(b, S) == b \in S /\ \A a \in S : obj[a].ts <= obj[b].ts

\* C1: append_vector_mask rejects a box with w <= 0.01 or h <= 0.01 and a
\* polygon with fewer than 3 points: it returns False and leaves the live
\* collection and the redo buffer unchanged; for a valid mask it returns True
\* and the mask becomes the last live element, the earlier ones unchanged.
C1_AppendValidates ==
    [][ IsCall("append") /\ last'.arg # NoMask =>
          LET m == last'.arg
              small == \/ IsBox(m) /\ (m.w <= 10 \/ m.h <= 10)
                       \/ IsPoly(m) /\ Len(m.points) < 3
          IN  /\ small =>
                    /\ last'.ret = "False"
                    /\ vector_masks' = vector_masks
                    /\ action_stack' = action_stack
              /\ ~small =>
                    /\ last'.ret = "True"
                    /\ vector_masks' = Append(vector_masks, m.id)
                    /\ obj'[m.id] = m
                    /\ action_stack' = action_stack ]_vars

\* a box exactly 0.01 wide was refused by a document that holds masks
C1_Witness ==
    /\ last.op = "append"
    /\ last.arg # NoMask
    /\ IsBox(last.arg)
    /\ last.arg.w = 10
    /\ last.arg.h > 10
    /\ last.ret = "False"
    /\ vector_masks # <<>>

\* C2: for every document with a non-empty live collection, undo() followed
\* at once by redo() restores the mask undo removed (as the topmost mask),
\* leaves the live collection set-equal to what it was and the redo buffer
\* equal to what it was; in both versions of ThyraDocument.
C2_UndoRedoRestores ==
    vector_masks # <<>> =>
        /\ LET u == undo(vector_masks, action_stack)
               r == redo(u.vm, u.st)
           IN  /\ \E x \in Range(vector_masks) :
                     /\ x \notin Range(u.vm)
                     /\ Range(u.vm) = Range(vector_masks) \ {x}
                     /\ r.vm # <<>>
                     /\ Last(r.vm) = x
               /\ Range(r.vm) = Range(vector_masks)
               /\ Len(r.vm) = Len(vector_masks)
               /\ r.st = action_stack
        /\ LET bs == BoxesOf(vector_masks)
               ps == PolygonsOf(vector_masks)
               u == legacy_undo(bs, ps, action_stack)
               r == legacy_redo(u.boxes, u.polygons, u.st)
           IN  /\ \E x \in Range(vector_masks) :
                     /\ Range(u.boxes) \cup Range(u.polygons)
                            = Range(vector_masks) \ {x}
                     /\ IF IsBox(obj[x])
                        THEN r.boxes # <<>> /\ Last(r.boxes) = x
                        ELSE r.polygons # <<>> /\ Last(r.polygons) = x
               /\ Range(r.boxes) = Range(bs)
               /\ Range(r.polygons) = Range(ps)
               /\ Len(r.boxes) + Len(r.polygons) = Len(vector_masks)
               /\ r.st = action_stack

\* a redo that followed an undo has put a mask back on top of another one
C2_Witness ==
    /\ last.op = "redo"
    /\ last.after = "undo"
    /\ last.ret = "None"
    /\ Len(vector_masks) >= 2
    /\ obj[Last(vector_masks)].ts > obj[vector_masks[1]].ts

\* C3: undo() removes exactly one live mask, one whose ts is the maximum over
\* the live masks whatever the insertion order, and pushes it onto the end
\* of the redo buffer; on an empty live collection it changes nothing; in
\* both versions of ThyraDocument.
C3_UndoStep ==
    IsCall("undo") =>
        IF vector_masks = <<>>
        THEN vector_masks' = <<>> /\ action_stack' = action_stack
        ELSE \E b \in Range(vector_masks) :
                /\ IsLatestIn(b, Range(vector_masks))
                /\ Range(vector_masks') = Range(vector_masks) \ {b}
                /\ Len(vector_masks') = Len(vector_masks) - 1
                /\ action_stack' = Append(action_stack, b)

C3_LegacyUndo ==
    LET bs == BoxesOf(vector_masks)
        ps == PolygonsOf(vector_masks)
        u == legacy_undo(bs, ps, action_stack)
    IN  IF vector_masks = <<>>
        THEN u.boxes = <<>> /\ u.polygons = <<>> /\ u.st = action_stack
        ELSE \E b \in Range(vector_masks) :
                /\ IsLatestIn(b, Range(vector_masks))
                /\ Range(u.boxes) \cup Range(u.polygons)
                       = Range(vector_masks) \ {b}
                /\ Len(u.boxes) + Len(u.polygons) = Len(vector_masks) - 1
                /\ u.st = Append(action_stack, b)

C3_UndoRemovesLatest == [][C3_UndoStep]_vars /\ []C3_LegacyUndo

\* undo retired the mask with the larger ts although it was not the last
\* one inserted, and an older mask stays live
C3_Witness ==
    /\ last.op = "undo"
    /\ Len(last.arg) >= 2
    /\ action_stack # <<>>
    /\ Last(action_stack) # Last(last.arg)
    /\ obj[Last(action_stack)].ts > obj[Last(last.arg)].ts
    /\ vector_masks # <<>>

\* C4: redo() pops the last element of the redo buffer and appends it as the
\* last element of the live collection; with an empty buffer it changes
\* neither list.
C4_RedoPopsLast ==
    [][ IsCall("redo") =>
          IF action_stack = <<>>
          THEN /\ vector_masks' = vector_masks
               /\ action_stack' = action_stack
               /\ last'.ret = "False"
          ELSE /\ vector_masks' = Append(vector_masks, Last(action_stack))
               /\ action_stack' = Front(action_stack) ]_vars

\* a redo put an older mask back on top of a newer live one
C4_Witness ==
    /\ last.op = "redo"
    /\ last.ret = "None"
    /\ Len(vector_masks) >= 2
    /\ obj[Last(vector_masks)].ts < obj[vector_masks[1]].ts

\* C5: in every state the overlay's pointer and keyboard events reach, no
\* mask of the redo buffer is in the live collection.  Under Spec this does
\* not hold: releasing the button after a mask drag or a vertex drag, and a
\* vertex delete, push the selected mask, which stays live.
C5_RedoBufferHoldsRetired ==
    Range(action_stack) \cap Range(vector_masks) = {}

\* C5, the case: a selected live mask has been pushed by a release, and redo
\* has appended it to the live collection a second time
C5_Witness ==
    /\ selected_mask # NoHandle
    /\ \E i, j \in 1..Len(vector_masks) :
          /\ i < j
          /\ vector_masks[i] = selected_mask
          /\ vector_masks[j] = selected_mask

\* C6: delete_vector_mask(mask) removes that mask from the live collection
\* when it is there and pushes it onto the end of the redo buffer, the other
\* live masks and their order unchanged; when the mask is not live neither
\* list changes.
C6_DeleteRemovesThatMask ==
    [][ IsCall("delete") =>
          LET h == last'.arg
          IN  IF h \in Range(vector_masks)
              THEN /\ vector_masks' = Without(vector_masks, h)
                   /\ Len(vector_masks') = Len(vector_masks) - 1
                   /\ action_stack' = Append(action_stack, h)
              ELSE /\ vector_masks' = vector_masks
                   /\ action_stack' = action_stack ]_vars

\* a delete retired a mask that was not the topmost one
C6_Witness ==
    /\ last.op = "delete"
    /\ action_stack # <<>>
    /\ Last(action_stack) = last.arg
    /\ vector_masks # <<>>
    /\ last.arg < Last(vector_masks)

\* C7: clear() empties the live collection and leaves the redo buffer as it
\* was: the cleared masks are not added to it.
C7_ClearKeepsRedoBuffer ==
    [][ IsCall("clear") =>
          /\ vector_masks' = <<>>
          /\ action_stack' = action_stack ]_vars

\* a clear dropped live masks while the redo buffer held a retired one
C7_Witness ==
    /\ last.op = "clear"
    /\ last.arg # <<>>
    /\ vector_masks = <<>>
    /\ action_stack # <<>>
    /\ Range(action_stack) \cap Range(last.arg) = {}

\* the place of the live mask at index i when the live masks are taken by
\* ascending ts, masks of equal ts in document order
TsRank(vm, i) ==
    1 + Cardinality({j \in 1..Len(vm) :
                        \/ obj[vm[j]].ts < obj[vm[i]].ts
                        \/ obj[vm[j]].ts = obj[vm[i]].ts /\ j < i})

\* what the exported annotation a says of the mask m
Describes(a, m, size) ==
    IF IsBox(m)
    THEN a.bbox = << m.x * size[1], m.y * size[2],
                     m.w * size[1], m.h * size[2] >>
    ELSE a.segmentation =
             << Flatten([i \in 1..Len(m.points) |->
                            << m.points[i][1] * size[1],
                               m.points[i][2] * size[2] >>]) >>

ExportShape ==
    LET coco == last.ret
    IN  /\ Len(coco.annotations) = Len(vector_masks)
        /\ \A k \in 1..Len(coco.annotations) : coco.annotations[k].id = k
        /\ Len(coco.categories) = 1
        /\ coco.categories[1].id = 1
        /\ \A k \in 1..Len(coco.annotations) :
              coco.annotations[k].category_id = 1

\* C8 as stated: export gives one annotation per live mask, ids 1..N without
\* gaps, one category with id 1, and the k-th annotation describes the k-th
\* mask in document (live collection) order.
C8_ExportInDocumentOrder ==
    last.op = "export" =>
        /\ ExportShape
        /\ \A k \in 1..Len(vector_masks) :
              k <= Len(last.ret.annotations)
              /\ Describes(last.ret.annotations[k], obj[vector_masks[k]],
                           last.arg)

\* C8 as amended: export gives one annotation per live mask, ids 1..N without
\* gaps, one category with id 1, and the k-th annotation describes the k-th
\* live mask in ascending order of ts (masks of equal ts in document order).
C8_ExportInTsOrder ==
    last.op = "export" =>
        /\ ExportShape
        /\ \A i \in 1..Len(vector_masks) :
              TsRank(vector_masks, i) <= Len(last.ret.annotations)
              /\ Describes(last.ret.annotations[TsRank(vector_masks, i)],
                           obj[vector_masks[i]], last.arg)

\* an export of a box and a polygon whose document order is not their ts
\* order
C8_Witness ==
    /\ last.op = "export"
    /\ Len(vector_masks) = 2
    /\ obj[vector_masks[1]].ts > obj[vector_masks[2]].ts
    /\ obj[vector_masks[1]].kind # obj[vector_masks[2]].kind

\* C9: the annotation of a box (x,y,w,h) for an image W x H has
\* bbox = [x*W, y*H, w*W, h*H], area = (w*W)*(h*H) and iscrowd = 0; the box
\* (0.1,0.2,0.3,0.4) on a 1000 x 500 image gives bbox = [100,100,300,200]
\* and area = 60000.
C9_BoxExport ==
    last.op = "export" =>
        \A i \in 1..Len(vector_masks) :
            LET m == obj[vector_masks[i]]
                W == last.arg[1]
                H == last.arg[2]
                k == TsRank(vector_masks, i)
            IN  IsBox(m) =>
                  /\ k <= Len(last.ret.annotations)
                  /\ LET a == last.ret.annotations[k]
                     IN  /\ a.bbox = << m.x * W, m.y * H, m.w * W, m.h * H >>
                         /\ (W * m.h * H) % One = 0
                         /\ a.area = m.w * ((W * m.h * H) \div One)
                         /\ a.iscrowd = 0
                         /\ ( <<m.x, m.y, m.w, m.h>> = <<100, 200, 300, 400>>
                              /\ <<W, H>> = <<1000, 500>> =>
                                /\ a.bbox = << Px(100), Px(100),
                                               Px(300), Px(200) >>
                                /\ a.area = Px(60000) )

\* the box (0.1,0.2,0.3,0.4) was exported for a 1000 x 500 image
C9_Witness ==
    /\ last.op = "export"
    /\ last.arg = <<1000, 500>>
    /\ \E i \in 1..Len(vector_masks) :
          /\ IsBox(obj[vector_masks[i]])
          /\ obj[vector_masks[i]].w = 300
          /\ obj[vector_masks[i]].h = 400
    /\ \E k \in 1..Len(last.ret.annotations) :
          last.ret.annotations[k].area = Px(60000)

\* C10: the segmentation of an exported box is a single list of its four
\* corners in absolute image pixels (the normalized corners times the image
\* width and height), in the order TL, TR, BR, BL.
C10_BoxSegmentationAbsolute ==
    last.op = "export" =>
        \A i \in 1..Len(vector_masks) :
            LET m == obj[vector_masks[i]]
                W == last.arg[1]
                H == last.arg[2]
                k == TsRank(vector_masks, i)
            IN  IsBox(m) =>
                  /\ k <= Len(last.ret.annotations)
                  /\ last.ret.annotations[k].segmentation =
                       << << m.x * W, m.y * H,
                             (m.x + m.w) * W, m.y * H,
                             (m.x + m.w) * W, (m.y + m.h) * H,
                             m.x * W, (m.y + m.h) * H >> >>

\* what the code does hold of: one list of the four corners in the order TL,
\* TR, BR, BL, in normalized coordinates
C10_BoxSegmentationNormalized ==
    last.op = "export" =>
        \A i \in 1..Len(vector_masks) :
            LET m == obj[vector_masks[i]]
                k == TsRank(vector_masks, i)
            IN  IsBox(m) =>
                  /\ k <= Len(last.ret.annotations)
                  /\ last.ret.annotations[k].segmentation =
                       << << m.x, m.y,
                             m.x + m.w, m.y,
                             m.x + m.w, m.y + m.h,
                             m.x, m.y + m.h >> >>

\* the box (0.1,0.2,0.3,0.4) was exported for a 1000 x 500 image and its
\* segmentation starts at (0.1, 0.2), not at pixel (100, 100)
C10_Witness ==
    /\ last.op = "export"
    /\ last.arg = <<1000, 500>>
    /\ \E k \in 1..Len(last.ret.annotations) :
          /\ last.ret.annotations[k].bbox[1] = Px(100)
          /\ last.ret.annotations[k].segmentation[1][1] = 100

\* MainWindow._polygon_area: the signed shoelace sum of the points, halved.
\* The points are in fixed point, the result too.
polygon_area(points) ==
    LET n == Len(points)
        term(i) == LET p == points[i]
                       q == points[(i % n) + 1]
                   IN  FMul(p[1], q[2]) - FMul(q[1], p[2])
        sum[i \in 0..n] == IF i = 0 THEN 0 ELSE sum[i - 1] + term(i)
    IN  IF n < 3 THEN 0 ELSE sum[n] \div 2

\* the vertices of the polygon m in absolute pixels of an image W x H
AbsPoints(m, W, H) ==
    [i \in 1..Len(m.points) |-> << m.points[i][1] * W, m.points[i][2] * H >>]

\* C11: the area of an exported polygon is the shoelace area of its vertices
\* in absolute pixels, and its bbox is [min_x, min_y, max_x - min_x,
\* max_y - min_y] of those points.  The bbox is so; the area is not: the
\* exporter writes 0.
C11_PolygonAreaShoelace ==
    last.op = "export" =>
        \A i \in 1..Len(vector_masks) :
            LET m == obj[vector_masks[i]]
                W == last.arg[1]
                H == last.arg[2]
                k == TsRank(vector_masks, i)
                pts == AbsPoints(m, W, H)
                xs == {pts[j][1] : j \in 1..Len(pts)}
                ys == {pts[j][2] : j \in 1..Len(pts)}
            IN  IsPoly(m) =>
                  /\ k <= Len(last.ret.annotations)
                  /\ LET a == last.ret.annotations[k]
                     IN  /\ a.bbox = << SetMin(xs), SetMin(ys),
                                        SetMax(xs) - SetMin(xs),
                                        SetMax(ys) - SetMin(ys) >>
                         /\ a.area = Abs(polygon_area(pts))

\* the bbox half of C11, which every export satisfies
C11_PolygonBBox ==
    last.op = "export" =>
        \A i \in 1..Len(vector_masks) :
            LET m == obj[vector_masks[i]]
                pts == AbsPoints(m, last.arg[1], last.arg[2])
                xs == {pts[j][1] : j \in 1..Len(pts)}
                ys == {pts[j][2] : j \in 1..Len(pts)}
                k == TsRank(vector_masks, i)
            IN  IsPoly(m) =>
                  /\ k <= Len(last.ret.annotations)
                  /\ last.ret.annotations[k].bbox =
                        << SetMin(xs), SetMin(ys),
                           SetMax(xs) - SetMin(xs), SetMax(ys) - SetMin(ys) >>

\* the triangle (0,0), (0.5,0), (0.5,0.5) was exported for a 1000 x 500
\* image: its shoelace area is 62500 square pixels, the area written is 0
C11_Witness ==
    /\ last.op = "export"
    /\ last.arg = <<1000, 500>>
    /\ \E i \in 1..Len(vector_masks) :
          LET m == obj[vector_masks[i]]
          IN  /\ IsPoly(m)
              /\ Abs(polygon_area(AbsPoints(m, 1000, 500))) = Px(62500)
              /\ last.ret.annotations[TsRank(vector_masks, i)].area = 0

-----------------------------------------------------------------------------
(* Properties of the masks' methods, checked under SpecShape *)

\* the box m lies inside the image
BoxInBounds(m) ==
    /\ m.x >= 0
    /\ m.y >= 0
    /\ m.x + m.w <= One
    /\ m.y + m.h <= One

\* C12: a box inside the image (0 <= x, 0 <= y, x+w <= 1, y+h <= 1) is still
\* inside it after move(dx, dy), whatever dx and dy, and its w and h are
\* unchanged.
C12_BoxMoveStaysInBounds ==
    [][ IsCall("move") /\ IsBox(current_mask) /\ BoxInBounds(current_mask) =>
          /\ IsBox(current_mask')
          /\ BoxInBounds(current_mask')
          /\ current_mask'.w = current_mask.w
          /\ current_mask'.h = current_mask.h ]_vars

\* a box of positive size was moved by (0.9, 0.9) and stopped at the right
\* and bottom edges of the image
C12_Witness ==
    /\ last.op = "move"
    /\ last.arg = <<900, 900>>
    /\ IsBox(current_mask)
    /\ current_mask.w > 0
    /\ current_mask.x > 0
    /\ current_mask.x + current_mask.w = One
    /\ current_mask.y + current_mask.h = One

\* C13: delete_point on a box returns False for every index and leaves the
\* box as it was; on a polygon of at most 3 vertices, or with an index out
\* of range, it returns False and leaves the points as they were; otherwise
\* it returns True and removes exactly the vertex at the index.  A polygon of
\* 3 or more vertices never gets fewer than 3.
C13_UnsupportedDeleteIsNoop ==
    [][ IsCall("delete_point") =>
          LET m == current_mask
              index == last'.arg
              refused == /\ last'.ret = "False"
                         /\ current_mask' = m
          IN  /\ IsBox(m) => refused
              /\ IsPoly(m) =>
                    LET n == Len(m.points)
                    IN  /\ n <= 3 \/ index < 0 \/ index >= n => refused
                        /\ n > 3 /\ index >= 0 /\ index < n =>
                              /\ last'.ret = "True"
                              /\ IsPoly(current_mask')
                              /\ Len(current_mask'.points) = n - 1
                              /\ \A j \in 1..(n - 1) :
                                    current_mask'.points[j] =
                                        IF j <= index THEN m.points[j]
                                        ELSE m.points[j + 1]
                              /\ current_mask'.id = m.id
                              /\ current_mask'.ts = m.ts
                        /\ n >= 3 => Len(current_mask'.points) >= 3 ]_vars

\* the deletion of a vertex that exists was refused because the polygon has
\* exactly 3 vertices
C13_Witness ==
    /\ last.op = "delete_point"
    /\ last.ret = "False"
    /\ last.arg \in 0..2
    /\ IsPoly(current_mask)
    /\ Len(current_mask.points) = 3

\* the four corners of the box m in the order TL, TR, BR, BL, numbered from 0
Corner(m, i) ==
    CASE i = 0 -> <<m.x, m.y>>
      [] i = 1 -> <<m.x + m.w, m.y>>
      [] i = 2 -> <<m.x + m.w, m.y + m.h>>
      [] i = 3 -> <<m.x, m.y + m.h>>

Clamp01(v) == Max(0, Min(One, v))

\* the target t, clamped, is not past the fixed corner f as seen from the
\* corner i that is moved
SameSide(i, t, f) ==
    /\ IF i \in {0, 3} THEN Clamp01(t[1]) <= f[1] ELSE Clamp01(t[1]) >= f[1]
    /\ IF i \in {0, 1} THEN Clamp01(t[2]) <= f[2] ELSE Clamp01(t[2]) >= f[2]

\* C14 as stated: for every corner index i in 0..3 and every target,
\* move_point(i, nx, ny) leaves the corner at index (i+2) mod 4 where it was.
C14_OppositeCornerKeepsIndex ==
    [][ IsCall("move_point") /\ IsBox(current_mask) /\ last'.arg[1] \in 0..3 =>
          LET i == last'.arg[1]
          IN  Corner(current_mask', (i + 2) % 4)
                  = Corner(current_mask, (i + 2) % 4) ]_vars

\* C14, amended: move_point(i, nx, ny) with i in 0..3 makes the box the one
\* spanned by the corner opposite to i and the target clamped to [0,1]: the
\* point of the opposite corner is a corner of the box after the call, and it
\* is the corner at index (i+2) mod 4 when the clamped target is not past it
\* on either axis.
C14_OppositeCornerStaysACorner ==
    [][ IsCall("move_point") /\ IsBox(current_mask) /\ last'.arg[1] \in 0..3 =>
          LET i == last'.arg[1]
              t == <<last'.arg[2], last'.arg[3]>>
              f == Corner(current_mask, (i + 2) % 4)
              c == <<Clamp01(t[1]), Clamp01(t[2])>>
          IN  /\ IsBox(current_mask')
              /\ current_mask'.x = Min(f[1], c[1])
              /\ current_mask'.y = Min(f[2], c[2])
              /\ current_mask'.w = Abs(f[1] - c[1])
              /\ current_mask'.h = Abs(f[2] - c[2])
              /\ \E j \in 0..3 : Corner(current_mask', j) = f
              /\ SameSide(i, t, f) =>
                    Corner(current_mask', (i + 2) % 4) = f ]_vars

\* the top-left corner of a box whose bottom-right corner is (0.4, 0.6) was
\* moved to (0.3, 0.3)
C14_Witness ==
    /\ last.op = "move_point"
    /\ last.arg = <<0, 300, 300>>
    /\ IsBox(current_mask)
    /\ <<current_mask.x, current_mask.y>> = <<300, 300>>
    /\ <<current_mask.w, current_mask.h>> = <<100, 300>>

\* C15: during a live draw, after any sequence of update(x, y) calls the box
\* spans the corner it was created at (the press position) and the latest
\* (x, y): x = min(anchor.x, x), y = min(anchor.y, y), w = |x - anchor.x|,
\* h = |y - anchor.y|.  The second update of a draw already breaks it: update
\* takes the box's current (x, y), which the first update may have moved, for
\* the anchor.
C15_UpdateSpansAnchor ==
    [][ IsCall("update") /\ IsBox(current_mask) /\ anchor # NoPos =>
          LET p == last'.arg
          IN  /\ current_mask'.x = Min(anchor[1], p[1])
              /\ current_mask'.y = Min(anchor[2], p[2])
              /\ current_mask'.w = Abs(p[1] - anchor[1])
              /\ current_mask'.h = Abs(p[2] - anchor[2]) ]_vars

\* a box created at (0.5, 0.5) has been updated twice, last with (0.7, 0.7),
\* and (0.5, 0.5) is no longer one of its corners
C15_Witness ==
    /\ last.op = "update"
    /\ last.arg = <<700, 700>>
    /\ anchor = <<500, 500>>
    /\ IsBox(current_mask)
    /\ current_mask.x # 500
    /\ current_mask.x + current_mask.w # 500

-----------------------------------------------------------------------------
(* Properties of the overlay's handlers, checked under Spec *)

\* C16: in every state the pointer and keyboard events reach, every live box
\* has w > 0.01 and h > 0.01.  The commit establishes it; a vertex drag of
\* the committed box does not keep it: move_point accepts any target.
C16_LiveBoxesKeepMinSize ==
    \A i \in 1..Len(vector_masks) :
        LET m == obj[vector_masks[i]]
        IN  IsBox(m) => m.w > MinBoxSide /\ m.h > MinBoxSide

\* a corner of the selected live box has been dragged onto the opposite
\* corner: the box has no extent
C16_Witness ==
    /\ selected_mask # NoHandle
    /\ selected_mask \in Range(vector_masks)
    /\ dragging_vertex
    /\ edits > 0
    /\ IsBox(obj[selected_mask])
    /\ obj[selected_mask].w = 0
    /\ obj[selected_mask].h = 0

\* C17: in every state the pointer and keyboard events reach, every polygon
\* in the live collection or in the redo buffer has at least 3 vertices.
C17_PolygonsKeepThreeVertices ==
    \A h \in Range(vector_masks) \cup Range(action_stack) :
        IsPoly(obj[h]) => Len(obj[h].points) >= MinPolyPoints

\* a live polygon of exactly 3 vertices has been edited in place and is in
\* the redo buffer as well
C17_Witness ==
    /\ edits > 0
    /\ \E h \in Range(vector_masks) \cap Range(action_stack) :
          /\ IsPoly(obj[h])
          /\ Len(obj[h].points) = MinPolyPoints

\* every vertex of the mask m lies in [0,1] x [0,1]
InUnitSquare(m) ==
    CASE IsBox(m)  -> BoxInBounds(m)
      [] IsPoly(m) -> \A i \in 1..Len(m.points) :
                          /\ m.points[i][1] \in 0..One
                          /\ m.points[i][2] \in 0..One
      [] OTHER     -> TRUE

\* C18: in every state reached by pointer events at positions inside or
\* outside the display rectangle, every vertex of the transient mask and of
\* every committed mask lies in [0,1] x [0,1] (for a box 0 <= x, 0 <= y,
\* x+w <= 1, y+h <= 1).
C18_CoordinatesClamped ==
    /\ InUnitSquare(current_mask)
    /\ \A h \in Handles : InUnitSquare(obj[h])

\* a committed mask reaches the right and bottom edges of the image: it was
\* drawn or dragged with the pointer outside the widget, at (1200, 900)
C18_Witness ==
    /\ last_mouse_pos = <<1200, 900>>
    /\ selected_mask # NoHandle
    /\ \E p \in Range(get_points(obj[selected_mask])) : p = <<One, One>>

-----------------------------------------------------------------------------
(* Properties of the coordinate mappings, checked under SpecMap *)

\* C19: for image and widget sizes > 0, a point inside the image mapped by
\* image_to_widget_coords and back by widget_to_image_coords is the point
\* itself, and so is a point of the display rectangle mapped by
\* widget_to_image_coords and back by image_to_widget_coords.  The points
\* and sizes are such that every quotient is representable, so the
\* tolerance is 0.
C19_MappingsAreInverse ==
    last.after = "back" =>
        /\ last.ret = last.arg.origin
        /\ last.arg.p[1] % One = 0 \/ last.op = "image_to_widget"
        /\ last.arg.p[2] % One = 0 \/ last.op = "image_to_widget"

\* the image point (200, 500) of a 2000 x 1000 image went to the widget point
\* (100, 500) of the letterboxed 1000 x 1000 widget and came back
C19_Witness ==
    /\ last.after = "back"
    /\ last.op = "widget_to_image"
    /\ image_size = <<2000, 1000>>
    /\ last.arg.widget = <<1000, 1000>>
    /\ last.arg.origin = <<Px(200), Px(500)>>
    /\ last.arg.p = <<Px(100), Px(500)>>
    /\ last.ret = <<Px(200), Px(500)>>

\* the widget point (350, 500) of the display rectangle of a 500 x 1000 image
\* in a 1000 x 1000 widget went to the image point (100, 500) and came back
C19_WitnessFromWidget ==
    /\ last.after = "back"
    /\ last.op = "image_to_widget"
    /\ image_size = <<500, 1000>>
    /\ last.arg.widget = <<1000, 1000>>
    /\ last.arg.origin = <<Px(300), Px(500)>>
    /\ last.arg.p = <<Px(50), Px(500)>>

-----------------------------------------------------------------------------
(* The overlay's handlers before an image is opened, checked under Spec *)

\* C20: while the image dimensions are unknown, every pointer event the
\* overlay handles (press, move, double click) completes without an error,
\* and the document and the masks stay as they were.  Nothing is drawn or
\* changed indeed, but the handlers do not complete: compute_video_rect
\* compares None with 0 and raises TypeError.
C20_MissingGeometryNoError ==
    image_size = NoSize =>
        /\ last.ret \notin {"TypeError", "ZeroDivisionError"}
        /\ vector_masks = <<>>
        /\ action_stack = <<>>
        /\ current_mask = NoMask
        /\ \A h \in Handles : obj[h] = NoMask

\* the half of C20 that holds: without an image no event changes the
\* document or creates a mask
C20_MissingGeometryNoChange ==
    image_size = NoSize =>
        /\ vector_masks = <<>>
        /\ action_stack = <<>>
        /\ current_mask = NoMask
        /\ \A h \in Handles : obj[h] = NoMask

\* a press (or double click) arrived before any image was opened and raised
C20_Witness ==
    /\ image_size = NoSize
    /\ button = "down"
    /\ last.ret = "TypeError"

-----------------------------------------------------------------------------
(* The states of the controller, as the handlers test them: the move       *)
(* handler edits a vertex under "dragging_vertex and selected_mask and     *)
(* active_vertex_index is not None" and the mask under "dragging and       *)
(* selected_mask"; the release handler tests dragging_vertex, then         *)
(* dragging, then current_mask.                                            *)

\* MovingVertex(mask, index)
MovingVertex ==
    /\ dragging_vertex
    /\ selected_mask # NoHandle
    /\ active_vertex_index # NoIndex

\* MovingMask(mask)
MovingMask ==
    /\ ~dragging_vertex
    /\ dragging
    /\ selected_mask # NoHandle

Drawing == ~dragging_vertex /\ ~dragging /\ current_mask # NoMask

Selected ==
    /\ ~dragging_vertex
    /\ ~dragging
    /\ current_mask = NoMask
    /\ selected_mask # NoHandle

Idle ==
    /\ ~dragging_vertex
    /\ ~dragging
    /\ current_mask = NoMask
    /\ selected_mask = NoHandle

\* the validation of the claim, stated on the transient mask
C21_Passes(m) ==
    \/ IsBox(m) /\ m.w > 10 /\ m.h > 10
    \/ IsPoly(m) /\ Len(m.points) >= 3

C22_Containing(pos) ==
    LET n == PointerNorm(pos)
    IN  {i \in 1..Len(vector_masks) :
            contains(obj[vector_masks[i]], n[1], n[2])}

\* C22: a double click hit-tests the live masks topmost-first.  If a live
\* mask contains the point, the selected mask becomes the one latest in
\* document order among those containing it, any transient mask is dropped
\* and the drawing mode is unchanged; if none contains it, the selection is
\* cleared, any transient mask is dropped and the drawing mode is reset to
\* box.  The document is unchanged in both cases.
C22_DoubleClickSelectsTopmost ==
    [][ \A pos \in PickPositions :
           MouseDoubleClickAt(pos) =>
              /\ UNCHANGED <<vector_masks, action_stack, obj>>
              /\ current_mask' = NoMask
              /\ IF C22_Containing(pos) # {}
                 THEN /\ \E i \in C22_Containing(pos) :
                            /\ selected_mask' = vector_masks[i]
                            /\ \A j \in C22_Containing(pos) : j <= i
                      /\ mode' = mode
                 ELSE /\ selected_mask' = NoHandle
                      /\ mode' = "box" ]_vars

\* a double click in polygon mode has selected the box, which lies above the
\* polygon after a delete and a redo: the button is down with no drag and
\* no transient mask, which only a double click leaves
C22_Witness ==
    /\ button = "down"
    /\ Selected
    /\ mode = "poly"
    /\ Len(vector_masks) = 2
    /\ IsPoly(obj[vector_masks[1]])
    /\ IsBox(obj[vector_masks[2]])
    /\ selected_mask = vector_masks[2]

\* the square of the distance, in widget pixels (fixed point), from the
\* pointer at pos to the vertex i of the selected mask
C23_Dist2(pos, i) ==
    Dist2(VertexPx(get_points(obj[selected_mask])[i], VideoRect),
          << Px(pos[1]), Px(pos[2]) >>)

\* the vertices of the selected mask within 8 pixels of the pointer
C23_Near(pos) ==
    {i \in 1..Len(get_points(obj[selected_mask])) :
        C23_Dist2(pos, i) <= 64 * One}

\* C23: in state Selected, a press within the hit radius (8 viewport pixels)
\* of the nearest vertex of the selected mask enters MovingVertex for that
\* vertex, even when the point is also inside the body of the mask; a press
\* inside the body but farther than the radius from every vertex enters
\* MovingMask; a press that is neither clears the selection and starts a new
\* transient mask.
C23_PressInSelected ==
    [][ \A pos \in PickPositions :
           (Selected /\ MousePressAt(pos)) =>
              LET n == PointerNorm(pos)
              IN  /\ UNCHANGED <<vector_masks, action_stack, obj>>
                  /\ IF C23_Near(pos) # {}
                     THEN /\ MovingVertex'
                          /\ selected_mask' = selected_mask
                          /\ active_vertex_index' + 1 \in C23_Near(pos)
                          /\ \A j \in C23_Near(pos) :
                                C23_Dist2(pos, active_vertex_index' + 1)
                                    <= C23_Dist2(pos, j)
                          /\ current_mask' = NoMask
                     ELSE IF contains(obj[selected_mask], n[1], n[2])
                     THEN /\ MovingMask'
                          /\ selected_mask' = selected_mask
                          /\ current_mask' = NoMask
                     ELSE /\ selected_mask' = NoHandle
                          /\ Drawing'
                          /\ get_points(current_mask')[1] = <<n[1], n[2]>> ]_vars

\* the press at (108,350), exactly 8 pixels from vertex 0 of the selected
\* box and on its body, has grabbed the vertex
C23_Witness ==
    /\ MovingVertex
    /\ button = "down"
    /\ last_mouse_pos = <<108, 350>>
    /\ selected_mask # NoHandle
    /\ IsBox(obj[selected_mask])
    /\ active_vertex_index = 0
    /\ contains(obj[selected_mask], 108, 200)

\* a move event in MovingVertex calls move_point on the selected mask with
\* the index grabbed at the press
C24_VertexMoveEdits(pos) ==
    LET n == PointerNorm(pos)
    IN  /\ selected_mask # NoHandle
        /\ active_vertex_index # NoIndex
        /\ obj' = [obj EXCEPT ![selected_mask] =
                      move_point(obj[selected_mask], active_vertex_index,
                                 n[1], n[2])]
        /\ UNCHANGED <<vector_masks, selected_mask, active_vertex_index>>

\* a move event in MovingMask calls move on the selected mask, with the
\* displacement of the pointer since the last event
C24_MaskMoveEdits(pos) ==
    /\ selected_mask # NoHandle
    /\ last_mouse_pos # NoPos
    /\ obj' = [obj EXCEPT ![selected_mask] =
                  move(obj[selected_mask],
                       FDiv(pos[1] - last_mouse_pos[1], WidgetSize[1]),
                       FDiv(pos[2] - last_mouse_pos[2], WidgetSize[2]))]
    /\ UNCHANGED <<vector_masks, selected_mask>>

\* C24: in MovingVertex each move event calls move_point on the selected
\* mask with the grabbed index, and in MovingMask each move event calls move
\* on the selected mask; a release in either state returns the controller to
\* Selected with the same mask still selected, and the live collection holds
\* the same masks in the same order (the edit is in place).
C24_DragEditsInPlace ==
    [][ /\ \A pos \in EditPositions :
              /\ (MovingVertex /\ MouseMoveAt(pos))
                    => C24_VertexMoveEdits(pos)
              /\ (MovingMask /\ MouseMoveAt(pos))
                    => C24_MaskMoveEdits(pos)
        /\ ((MovingVertex \/ MovingMask) /\ MouseRelease)
              => /\ Selected'
                 /\ selected_mask' = selected_mask
                 /\ UNCHANGED <<vector_masks, obj>> ]_vars

\* the loaded box has been dragged and released: it is still selected, it
\* has moved, and the live list is the loaded one
C24_Witness ==
    /\ button = "up"
    /\ Selected
    /\ edits = 1
    /\ last_mouse_pos = NoPos
    /\ selected_mask = LoadedMasks[1].id
    /\ obj[selected_mask] # LoadedMasks[1]
    /\ obj[selected_mask].w = LoadedMasks[1].w
    /\ vector_masks = << LoadedMasks[1].id, LoadedMasks[2].id >>

\* the Delete key with the vertex active_vertex_index highlighted: deletePoint
\* succeeds on a polygon of more than 3 vertices, and then the vertex is gone,
\* the highlight is cleared and the mask stays where it is and selected; when
\* it fails nothing changes
C25_DeletesVertex ==
    LET m == obj[selected_mask]
        ok == /\ IsPoly(m)
              /\ Len(m.points) > 3
              /\ active_vertex_index \in 0..(Len(m.points) - 1)
    IN  IF ok
        THEN /\ obj' = [obj EXCEPT ![selected_mask].points =
                           RemoveAt(@, active_vertex_index + 1)]
             /\ active_vertex_index' = NoIndex
             /\ UNCHANGED <<vector_masks, selected_mask>>
             /\ Selected'
        ELSE UNCHANGED <<vector_masks, action_stack, obj, selected_mask,
                         active_vertex_index>>

C26_Controller ==
    << current_mask, selected_mask, active_vertex_index, dragging,
       dragging_vertex, mode >>

\* C26: an undo or redo shortcut, in any controller state, calls
\* Document.undo() / Document.redo() and leaves the controller's own state
\* unchanged: the transient mask, the selected mask, the highlighted vertex
\* index, the drag flags and the drawing mode are the same after it.
C26_UndoRedoKeepController ==
    [][ /\ KeyUndo =>
              /\ vector_masks' = undo(vector_masks, action_stack).vm
              /\ action_stack' = undo(vector_masks, action_stack).st
              /\ UNCHANGED C26_Controller
        /\ KeyRedo =>
              /\ vector_masks' = redo(vector_masks, action_stack).vm
              /\ action_stack' = redo(vector_masks, action_stack).st
              /\ UNCHANGED C26_Controller ]_vars

\* an undo in the middle of a drag has retired the selected mask: the drag
\* goes on and the mask is still the selected one
C26_Witness ==
    /\ MovingMask
    /\ selected_mask # NoHandle
    /\ selected_mask \notin Range(vector_masks)
    /\ action_stack # <<>>
    /\ Last(action_stack) = selected_mask

\* the transient mask is a mask of its own: no live or retired mask is it
C27_TransientApart ==
    current_mask # NoMask =>
        /\ current_mask.id \notin Range(vector_masks)
        /\ current_mask.id \notin Range(action_stack)
        /\ obj[current_mask.id] = NoMask

\* a press while a transient mask is in progress leaves the document as it
\* is and starts a new transient mask at the point of the press
C27_PressReplaces ==
    \A pos \in EditPositions :
        (current_mask # NoMask /\ MousePressAt(pos)) =>
            LET n == PointerNorm(pos)
            IN  /\ UNCHANGED <<vector_masks, action_stack, obj>>
                /\ current_mask' # NoMask
                /\ get_points(current_mask')[1] = <<n[1], n[2]>>
                /\ IsBox(current_mask') =>
                      current_mask'.w = 0 /\ current_mask'.h = 0
                /\ IsPoly(current_mask') => Len(current_mask'.points) = 1

\* C27: a transient mask is never a member of the document's live collection
\* or redo buffer while it is being drawn, and at most one transient mask
\* exists at any time: a press that starts a new draw gesture replaces any
\* in-progress transient mask, which is dropped without being committed or
\* pushed to the redo buffer.
C27_TransientNeverInDocument ==
    []C27_TransientApart /\ [][C27_PressReplaces]_vars

\* a draw interrupted by the dialog of clear_shapes: the button is up and the
\* transient box, large enough to be committed, is still there for the next
\* press to replace
C27_Witness ==
    /\ button = "up"
    /\ Drawing
    /\ IsBox(current_mask)
    /\ current_mask.w > MinBoxSide
    /\ current_mask.h > MinBoxSide
    /\ Len(vector_masks) = Len(LoadedMasks)

\* everything but the dash offset: the document, the masks and the
\* controller
C28_Annotation ==
    << vector_masks, action_stack, obj, mode, dragging, dragging_vertex,
       active_vertex_index, current_mask, selected_mask, last_mouse_pos,
       image_size >>

\* C28: the tick of the animation timer changes only the dash offset, which
\* stays within 0..12: interleaved with any pointer and keyboard events, a
\* tick leaves the live collection, the redo buffer, the geometry of every
\* mask and the state of the controller unchanged.
C28_TickOnlyAnimates ==
    /\ [](dash_offset \in 0..12)
    /\ [][ dash_offset' # dash_offset =>
              /\ UNCHANGED C28_Annotation
              /\ dash_offset' = (dash_offset + 1) % 13 ]_vars

\* the dash offset has reached 12 in the middle of a draw, after an undo
C28_Witness ==
    /\ dash_offset = 12
    /\ Drawing
    /\ button = "down"
    /\ action_stack # <<>>

\* the polygon after update(p): p appended when far holds, and as it was
\* otherwise
C29_Updated(far) ==
    (IsCall("update") /\ IsPoly(current_mask)) =>
        LET l == Last(current_mask.points)
            p == last'.arg
        IN  /\ IsPoly(current_mask')
            /\ current_mask'.points =
                  IF far[l, p] THEN Append(current_mask.points, p)
                  ELSE current_mask.points

\* the distance of p from l exceeds 0.002
C29_FartherThanEps ==
    [l \in (0..One) \X (0..One), p \in UpdatePoints |->
        (p[1] - l[1]) * (p[1] - l[1]) + (p[2] - l[2]) * (p[2] - l[2])
            > PolyEps * PolyEps]

\* p differs from l by more than 0.002 along an axis
C29_AxisFartherThanEps ==
    [l \in (0..One) \X (0..One), p \in UpdatePoints |->
        Abs(p[1] - l[1]) > PolyEps \/ Abs(p[2] - l[2]) > PolyEps]

\* C29 as stated: Polygon.update(x, y) during a live draw appends (x, y) as a
\* new last vertex exactly when its distance from the current last vertex
\* exceeds the epsilon 0.002 (normalized), and otherwise leaves the point
\* list unchanged; existing vertices are never modified or removed.
C29_UpdateAppendsBeyondDistance == [][C29_Updated(C29_FartherThanEps)]_vars

\* C29, amended: (x, y) is appended exactly when it differs from the last
\* vertex by more than 0.002 in x or by more than 0.002 in y.
C29_UpdateAppendsBeyondAxisGap ==
    [][C29_Updated(C29_AxisFartherThanEps)]_vars

\* update(0.002, 0.002) on a polygon that ends at (0, 0): the point is at a
\* distance of 0.0028 and the polygon is as it was
C29_Witness ==
    /\ last.op = "update"
    /\ last.arg = <<2, 2>>
    /\ IsPoly(current_mask)
    /\ current_mask.points = << <<500, 500>>, <<0, 0>> >>

\* the last call was the mapping op, with a degenerate image size
C30_Called(op) ==
    /\ last.op = op
    /\ (last.arg.size[1] <= 0 \/ last.arg.size[2] <= 0)

\* compute_video_rect returned the full viewport and widget_to_image_coords
\* returned (0, 0)
C30_RectAndToImage ==
    /\ C30_Called("compute_video_rect") =>
          last.ret = QRectF(0, 0, Px(last.arg.widget[1]),
                            Px(last.arg.widget[2]))
    /\ C30_Called("widget_to_image") => last.ret = <<0, 0>>

\* C30 as stated: with a degenerate image size (imageW <= 0 or imageH <= 0),
\* computeDisplayRect returns the full viewport, toImageCoords returns (0,0),
\* and toViewportCoords returns the origin (left, top) of the display
\* rectangle it was given, for every explicitly passed rectangle.
C30_DegenerateReturnsRectOrigin ==
    /\ C30_RectAndToImage
    /\ C30_Called("image_to_widget") =>
          last.ret = <<last.arg.rect.x, last.arg.rect.y>>

\* C30, amended: toViewportCoords returns the point (0, 0), the origin of the
\* viewport, whatever rectangle it was given.
C30_DegenerateReturnsZero ==
    /\ C30_RectAndToImage
    /\ C30_Called("image_to_widget") => last.ret = <<0, 0>>

\* image_to_widget_coords with the size (0, 0) and the rectangle of the
\* 2000 x 1000 image shown before, whose top is at 250: it returned (0, 0)
C30_Witness ==
    /\ last.op = "image_to_widget"
    /\ last.arg.size = <<0, 0>>
    /\ last.arg.rect.y = Px(250)
    /\ last.arg.p # <<0, 0>>
    /\ last.ret = <<0, 0>>

-----------------------------------------------------------------------------
(* Invariants of the document and the controller under the overlay's       *)
(* events                                                                  *)

\* C32: in every state reachable by pointer and keyboard events, no mask
\* appears more than once in the live collection.  Under SpecEdit this does
\* not hold: a release after a drag pushes the selected, live mask onto the
\* redo buffer, and redo appends it again.
C32_NoMaskLiveTwice ==
    \A i, j \in 1..Len(vector_masks) :
        i # j => vector_masks[i] # vector_masks[j]

\* C32, the case: the mask on top of the live collection is also below
C32_Witness ==
    /\ Len(vector_masks) >= 2
    /\ Last(vector_masks) \in Range(Front(vector_masks))

\* C33: in every reachable state the selected mask, when there is one, is in
\* the live collection.  Under SpecEdit this does not hold: undo retires the
\* selected mask and leaves it selected.
C33_SelectedIsLive ==
    selected_mask # NoHandle => selected_mask \in Range(vector_masks)

\* C33, the case: a retired mask is selected and a drag has edited it
C33_Witness ==
    /\ selected_mask # NoHandle
    /\ selected_mask \notin Range(vector_masks)
    /\ selected_mask \in Range(action_stack)
    /\ selected_mask \in LoadedHandles
    /\ edits > 0
    /\ obj[selected_mask] # LoadedMasks[selected_mask - MaxMasks]

\* the live collection with one of its entries taken out, the others in their
\* order
C34_OneRemoved(before, after) ==
    \E i \in 1..Len(before) : after = RemoveAt(before, i)

\* C34: undo leaves the z-order of the masks that stay live unchanged: the
\* live collection after undo is the one before with the removed mask taken
\* out.  Under SpecEdit this does not hold: undo sorts the live collection by
\* ts before it pops.
C34_UndoKeepsOrder ==
    [][ KeyUndo =>
          IF vector_masks = <<>>
          THEN vector_masks' = <<>>
          ELSE C34_OneRemoved(vector_masks, vector_masks') ]_vars

\* the live masks of the largest ts, with the heap h
C35_Latest(h) ==
    { b \in Range(vector_masks) :
        \A a \in Range(vector_masks) : h[a].ts <= h[b].ts }

\* C35: editing a committed mask's geometry (move, move_point, delete_point,
\* through a mask drag, a vertex drag or a vertex deletion) never changes
\* the mask's id or its ts, so the mask that undo selects is the same.
C35_EditsKeepIdAndTs ==
    [][ edits' # edits =>
          /\ \A h \in DOMAIN obj :
                obj[h] # NoMask =>
                    /\ obj'[h] # NoMask
                    /\ obj'[h].id = obj[h].id
                    /\ obj'[h].ts = obj[h].ts
          /\ C35_Latest(obj') = C35_Latest(obj) ]_vars

\* C35, the case: a loaded mask has been edited, its geometry differs from
\* the loaded one, its id and ts do not
C35_Witness ==
    /\ edits > 0
    /\ \E h \in LoadedHandles :
          /\ obj[h] # LoadedMasks[h - MaxMasks]
          /\ obj[h].id = h
          /\ obj[h].ts = LoadedMasks[h - MaxMasks].ts

\* C36: in every reachable state the flags encode at most one drag: the two
\* drag flags are never both true, and when either is true a mask is
\* selected (and for a vertex drag a vertex index is set).  Under SpecEdit
\* this does not hold: Delete in the middle of a drag clears the selection
\* and leaves the flag.
C36_FlagsEncodeOneDrag ==
    /\ ~(dragging /\ dragging_vertex)
    /\ dragging => selected_mask # NoHandle
    /\ dragging_vertex =>
          selected_mask # NoHandle /\ active_vertex_index # NoIndex

\* C36, the case: the button is held, a drag flag is set and no mask is
\* selected
C36_Witness ==
    /\ button = "down"
    /\ dragging \/ dragging_vertex
    /\ selected_mask = NoHandle

\* the pointer's displacement from last_mouse_pos to pos, in normalized image
\* coordinates, through the display rectangle
C40_Displacement(pos) ==
    LET a == PointerNorm(last_mouse_pos)
        b == PointerNorm(pos)
    IN  << b[1] - a[1], b[2] - a[2] >>

\* the points pts displaced by d
C40_Shifted(pts, d) ==
    [i \in 1..Len(pts) |-> << pts[i][1] + d[1], pts[i][2] + d[2] >>]

\* the points pts displaced by d stay in the unit square
C40_Unclamped(pts, d) ==
    \A i \in 1..Len(pts) :
        /\ pts[i][1] + d[1] \in 0..One
        /\ pts[i][2] + d[2] \in 0..One

\* C40: during a mask drag in which no clamping occurs, the translation of
\* the selected mask in normalized image coordinates equals the pointer's
\* displacement in normalized image coordinates through the letterboxed
\* display rectangle.  Under SpecEdit this does not hold: the handler
\* divides the displacement by the size of the widget.
C40_MaskFollowsPointer ==
    [][ \A pos \in EditPositions :
          (/\ MovingMask
           /\ last_mouse_pos # NoPos
           /\ MouseMoveAt(pos)
           /\ C40_Unclamped(get_points(obj[selected_mask]),
                            C40_Displacement(pos))
           /\ C40_Unclamped(get_points(obj[selected_mask]),
                            << FDiv(pos[1] - last_mouse_pos[1], WidgetSize[1]),
                               FDiv(pos[2] - last_mouse_pos[2],
                                    WidgetSize[2]) >>))
          => get_points(obj'[selected_mask])
                 = C40_Shifted(get_points(obj[selected_mask]),
                               C40_Displacement(pos)) ]_vars

\* C40, the case: the loaded box, dragged from (350,500) to (900,700) in the
\* widget, i.e. by (0.55, 0.4) in the image, has moved by (0.55, 0.2)
C40_Witness ==
    /\ dragging
    /\ selected_mask = MaxMasks + 1
    /\ last_mouse_pos = <<900, 700>>
    /\ obj[selected_mask].x = LoadedMasks[1].x + 550
    /\ obj[selected_mask].y = LoadedMasks[1].y + 200

-----------------------------------------------------------------------------
(* Properties of the worker processes, checked under SpecWorkersLive *)

\* both worker processes are in their run loop
C37_BothRunning ==
    /\ sam_worker.pc \in {"get", "handle"}
    /\ density_worker.pc \in {"get", "handle"}

\* the request id, of type type, is on the request queue
C37_Queued(type, id) ==
    \E i \in 1..Len(req_q) : req_q[i] = [type |-> type, request_id |-> id]

\* a response with that request_id and the field a request of that type is
\* answered with is on the response queue
C37_Answered(type, id) ==
    \E i \in 1..Len(res_q) :
        /\ res_q[i].request_id = id
        /\ (IF type = "segment" THEN "mask" ELSE "count") \in res_q[i].fields

\* C37: while both workers are running on the shared request queue, every
\* request of type 'segment' put on the queue is eventually answered by a
\* response with the same request_id and a mask, and every request of type
\* 'density' by one with the same request_id and a count.  Under
\* SpecWorkersLive this does not hold: the worker of the other type takes the
\* request off the queue and drops it.
C37_EveryRequestAnswered ==
    \A type \in RequestTypes, id \in 1..MaxRequests :
        (C37_Queued(type, id) /\ C37_BothRunning)
            ~> (C37_Answered(type, id) \/ ~C37_BothRunning)

\* C37, the case: requests have been sent, both workers wait on the empty
\* queue, the application runs on, and there is no response
C37_Witness ==
    /\ request_id > 0
    /\ req_q = <<>>
    /\ sam_worker = Waiting
    /\ density_worker = Waiting
    /\ main_pc = "exec"
    /\ res_q = <<>>

\* the two worker processes
C38_Workers == <<sam_worker, density_worker>>

\* the worker has taken a sentinel off the queue
C38_TookSentinel(w) ==
    w.pc = "exited" \/ (w.pc = "handle" /\ w.req = None)

\* the sentinels shutdown() has put so far
C38_SentinelsPut ==
    CASE main_pc = "exec" -> 0
      [] main_pc = "put"  -> 1
      [] OTHER            -> 2

\* every sentinel put is still queued or was taken by a worker of its own
C38_OneSentinelEach ==
    Cardinality({ i \in 1..Len(req_q) : req_q[i] = None })
        + Cardinality({ w \in 1..2 : C38_TookSentinel(C38_Workers[w]) })
        = C38_SentinelsPut

C38_Started(w) == w.pc # "none"

C38_Exited(w) == w.pc = "exited"

\* C38: after shutdown() has put its two sentinels on the request queue,
\* both started workers eventually leave their run loop, whatever requests
\* were queued and however the workers interleave; each worker takes at most
\* one sentinel.
C38_ShutdownStopsWorkers ==
    /\ []C38_OneSentinelEach
    /\ (C38_SentinelsPut = 2 /\ \A w \in 1..2 : C38_Started(C38_Workers[w]))
           ~> (\A w \in 1..2 : C38_Exited(C38_Workers[w]))

\* both workers have ended after a shutdown that found requests on the
\* queue: a response was put after the second sentinel had been sent
C38_Witness ==
    /\ \A w \in 1..2 : C38_Exited(C38_Workers[w])
    /\ main_pc \in {"join", "exit"}
    /\ request_id = MaxRequests
    /\ req_q = <<>>

-----------------------------------------------------------------------------
(* Properties of PolygonShape.smooth *)

\* the last call of smooth was on a polygon
C31_Smoothed ==
    last.op = "smooth" /\ IsPoly(last.arg.mask)

C39_KeepsThreeVertices ==
    (C31_Smoothed /\ Len(last.arg.mask.points) >= 3)
    => Len(current_mask.points) >= 3

\* C39, the case: a triangle has been fitted and resampled, and one vertex
\* is left of it
C39_Witness ==
    /\ C31_Smoothed
    /\ Len(last.arg.mask.points) = 3
    /\ ~last.arg.fit.raised
    /\ Len(last.arg.fit.coords) >= 4
    /\ Len(current_mask.points) = 1

=============================================================================
